---- MODULE Spec2Model ----
(***************************************************************************)
(* Query routing of the GovHack backend: the intent classifier with its    *)
(* rule-based fallback, the aggregation engine over the budget ledger, the *)
(* lexical retrieval engine over the document index, the HYBRID composer   *)
(* and the confidence scorer, in the chat flow (AIQueryService) and in the *)
(* direct flow (smart_query); the document index built by                  *)
(* vectorize_documents, the entity extraction of GovernmentDataRetriever,  *)
(* the chat view chat_query with the rows it stores, the audit ids of both *)
(* flows and the amount cleaning of the import_budget command.             *)
(*                                                                         *)
(* Text is a sequence of one-character strings, so that lower(), split()   *)
(* and the substring test `kw in text` are computed as Python computes     *)
(* them.  Confidence scores are counted in tenths (5 is 0.5), percentages  *)
(* in units of 10^-d for the d decimals the code rounds to.                *)
(***************************************************************************)
EXTENDS Integers, Sequences, FiniteSets, TLC

VARIABLES
    query,      \* text handed to the classifier (classification runs)
    intent,     \* classification last returned for query
    ledger,     \* budget_expenses: line item -> amount_2024_25 (or absent / NULL)
    dbUp,       \* FALSE while access to the ledger raises
    index,      \* DocumentVector rows in creation order
    records,    \* the Finance / HR / Procurement records that exist: <<table, id>>
    resp,       \* response last returned for the current ledger and index
    chat,       \* ChatSession and ChatMessage rows stored, as their numbers
    audit       \* str hashes drawn by the process, and the audit ids issued

vars == <<query, intent, ledger, dbUp, index, records, resp, chat, audit>>

(***************************************************************************)
(* Text primitives                                                         *)
(***************************************************************************)
UpperCase == <<"A","B","C","D","E","F","G","H","I","J","K","L","M",
               "N","O","P","Q","R","S","T","U","V","W","X","Y","Z">>

LowerCase == <<"a","b","c","d","e","f","g","h","i","j","k","l","m",
               "n","o","p","q","r","s","t","u","v","w","x","y","z">>

ToLower == [c \in {UpperCase[i] : i \in DOMAIN UpperCase} |->
              LowerCase[CHOOSE i \in DOMAIN UpperCase : UpperCase[i] = c]]

\* str.lower() on one character
LowerChar(c) == IF c \in DOMAIN ToLower THEN ToLower[c] ELSE c

\* str.lower()
Lower(s) == [i \in DOMAIN s |-> LowerChar(s[i])]

\* `needle in hay` on strings
Contains(hay, needle) ==
    \E i \in 1..(Len(hay) - Len(needle) + 1) :
        \A j \in DOMAIN needle : hay[i + j - 1] = needle[j]

\* " ".join(words)
RECURSIVE JoinWords(_)
JoinWords(ws) ==
    IF ws = <<>> THEN <<>>
    ELSE IF Len(ws) = 1 THEN ws[1]
    ELSE ws[1] \o <<" ">> \o JoinWords(Tail(ws))

(***************************************************************************)
(* Intent classifier: AIQueryService._rule_based_analysis, _analyze_intent *)
(***************************************************************************)
sql_keywords ==
    << <<"t","o","t","a","l">>,
       <<"s","u","m">>,
       <<"a","v","e","r","a","g","e">>,
       <<"a","v","g">>,
       <<"t","o","p">>,
       <<"h","i","g","h","e","s","t">>,
       <<"l","o","w","e","s","t">>,
       <<"c","o","m","p","a","r","e">>,
       <<"b","u","d","g","e","t">>,
       <<"a","m","o","u","n","t">>,
       <<"r","a","t","e">>,
       <<"p","e","r","c","e","n","t","a","g","e">>,
       <<"o","u","t","l","i","e","r">> >>

rag_keywords ==
    << <<"d","e","t","a","i","l","s">>,
       <<"a","b","o","u","t">>,
       <<"f","i","n","d">>,
       <<"w","h","o">>,
       <<"r","e","c","o","r","d">>,
       <<"i","n","f","o","r","m","a","t","i","o","n">>,
       <<"s","p","e","c","i","f","i","c">>,
       <<"l","a","t","e","s","t">>,
       <<"p","a","y","m","e","n","t">>,
       <<"c","o","n","t","r","a","c","t">>,
       <<"e","m","p","l","o","y","e","e">>,
       <<"s","u","p","p","l","i","e","r">> >>

hybrid_keywords ==
    << <<"h","o","w"," ","m","u","c","h">>,
       <<"w","h","a","t"," ","i","s">>,
       <<"s","h","o","w"," ","m","e">>,
       <<"t","e","l","l"," ","m","e"," ","a","b","o","u","t">>,
       <<"a","n","a","l","y","s","i","s">> >>

departments ==
    << <<"e","d","u","c","a","t","i","o","n">>,
       <<"h","e","a","l","t","h">>,
       <<"d","e","f","e","n","c","e">>,
       <<"t","r","e","a","s","u","r","y">>,
       <<"t","r","a","n","s","p","o","r","t">> >>

Methods == {"SQL", "RAG", "HYBRID"}

\* sum(1 for keyword in keywords if keyword in query_lower)
CountIn(keywords, text) ==
    Cardinality({i \in DOMAIN keywords : Contains(text, keywords[i])})

\* lines 165-170, with the comparison sql_score >= rag_score made strict
DecideMethodStrict(sql_score, rag_score, hybrid_score) ==
    IF hybrid_score > 0 /\ (sql_score > 0 \/ rag_score > 0) THEN "HYBRID"
    ELSE IF sql_score > rag_score THEN "SQL"
    ELSE "RAG"

\* lines 165-170: the decision on the three keyword scores
DecideMethod(sql_score, rag_score, hybrid_score) ==
    IF hybrid_score > 0 /\ (sql_score > 0 \/ rag_score > 0) THEN "HYBRID"
    ELSE IF sql_score >= rag_score THEN "SQL"
    ELSE "RAG"

\* the scores and the result of _rule_based_analysis, on the lower-cased text
RuleBasedOn(query_lower) ==
    LET entities     == SelectSeq(departments, LAMBDA dept : Contains(query_lower, dept))
        sql_score    == CountIn(sql_keywords, query_lower)
        rag_score    == CountIn(rag_keywords, query_lower)
        hybrid_score == CountIn(hybrid_keywords, query_lower)
        method       == DecideMethod(sql_score, rag_score, hybrid_score)
    IN  [ has_method |-> TRUE,
          method     |-> method,
          entities   |-> entities,
          query_type |-> IF method = "SQL" THEN "budget_summary" ELSE "specific_lookup",
          reasoning  |-> <<sql_score, rag_score, hybrid_score>> ]

_rule_based_analysis(q) == RuleBasedOn(Lower(q))

(***************************************************************************)
(* What the external model does on one call.  kind: "error" (network or    *)
(* API error raised by the client), "timeout", "text" (an answer with no   *)
(* {...} in it), "bad_json" ({...} that json.loads rejects), "json" (an    *)
(* object; it has a method key or not, with any value).                    *)
(***************************************************************************)
LLMEntities == << <<"l","l","m">> >>

LLMJson(has_method, method) ==
    [kind |-> "json", has_method |-> has_method, method |-> method, entities |-> LLMEntities]

LLMFailure(kind) ==
    [kind |-> kind, has_method |-> FALSE, method |-> "", entities |-> <<>>]

LLMBehaviours ==
    {LLMFailure(k) : k \in {"error", "timeout", "text", "bad_json"}}
    \cup {LLMJson(TRUE, m) : m \in Methods \cup {"sql", "OTHER"}}
    \cup {LLMJson(FALSE, "")}

\* the object json.loads returns is handed back as it is
_analyze_intent(q, llm) ==
    IF llm.kind \in {"error", "timeout"} THEN _rule_based_analysis(q)   \* except, line 133
    ELSE IF llm.kind = "text" THEN _rule_based_analysis(q)              \* json_match is None
    ELSE IF llm.kind = "bad_json" THEN _rule_based_analysis(q)          \* json.loads raises
    ELSE [ has_method |-> llm.has_method,
           method     |-> llm.method,
           entities   |-> llm.entities,
           query_type |-> "",
           reasoning  |-> <<0, 0, 0>> ]

\* no classification yet
NoIntent ==
    [done |-> FALSE, by |-> "", llm |-> LLMFailure("error"),
     result |-> [has_method |-> FALSE, method |-> "", entities |-> <<>>,
                 query_type |-> "", reasoning |-> <<0, 0, 0>>]]

(***************************************************************************)
(* The ledger (BudgetExpense).  A line item of the catalogue has at most   *)
(* one row; its amount_2024_25 is NULL or a number.  Items 2 and 3 are two *)
(* rows of the same portfolio, department and program.                     *)
(***************************************************************************)
MaxItems == 3
MaxAmount == 2

Catalogue ==
    << [portfolio  |-> <<"E","d","u","c","a","t","i","o","n">>,
        department |-> <<"D","e","p","a","r","t","m","e","n","t"," ","o","f"," ","E","d","u","c","a","t","i","o","n">>,
        program    |-> <<"S","c","h","o","o","l","s">>],
       [portfolio  |-> <<"H","e","a","l","t","h">>,
        department |-> <<"D","e","p","a","r","t","m","e","n","t"," ","o","f"," ","H","e","a","l","t","h">>,
        program    |-> <<"H","o","s","p","i","t","a","l","s">>],
       [portfolio  |-> <<"H","e","a","l","t","h">>,
        department |-> <<"D","e","p","a","r","t","m","e","n","t"," ","o","f"," ","H","e","a","l","t","h">>,
        program    |-> <<"H","o","s","p","i","t","a","l","s">>],
       [portfolio  |-> <<"D","e","f","e","n","c","e">>,
        department |-> <<"D","e","f","e","n","c","e"," ","E","d","u","c","a","t","i","o","n"," ","O","f","f","i","c","e">>,
        program    |-> <<"T","r","a","i","n","i","n","g">>],
       [portfolio  |-> <<"T","r","e","a","s","u","r","y">>,
        department |-> <<"T","h","e"," ","T","r","e","a","s","u","r","y">>,
        program    |-> <<>>] >>

Min(a, b) == IF a < b THEN a ELSE b

LineItems == 1..Min(MaxItems, Len(Catalogue))

NoRow == [present |-> FALSE, null |-> TRUE, amount |-> 0]
NullRow == [present |-> TRUE, null |-> TRUE, amount |-> 0]
AmountRow(a) == [present |-> TRUE, null |-> FALSE, amount |-> a]

EmptyLedger == [i \in LineItems |-> NoRow]

s_education == <<"e","d","u","c","a","t","i","o","n">>
s_Unknown == <<"U","n","k","n","o","w","n">>

\* name or 'Unknown'
OrUnknown(name) == IF name = <<>> THEN s_Unknown ELSE name

\* .filter(amount_2024_25__isnull=False)
NonNull(ldg) == {i \in DOMAIN ldg : ldg[i].present /\ ~ldg[i].null}

\* Q(portfolio__name__icontains='education') | Q(department__name__icontains='education')
IsEducation(i) ==
    \/ Contains(Lower(Catalogue[i].portfolio), s_education)
    \/ Contains(Lower(Catalogue[i].department), s_education)

RECURSIVE SumAmount(_, _)
\* Sum('amount_2024_25') over the rows S
SumAmount(S, ldg) ==
    IF S = {} THEN 0
    ELSE LET i == CHOOSE j \in S : TRUE
         IN  ldg[i].amount + SumAmount(S \ {i}, ldg)

\* .values(key).annotate(total_amount=Sum(...), count=Count('id')); avg_amount is
\* Avg(...) in hundredths
GroupBy(S, key, ldg) ==
    { [ key          |-> k,
        total_amount |-> SumAmount({i \in S : key[i] = k}, ldg),
        count        |-> Cardinality({i \in S : key[i] = k}),
        avg_amount   |-> (100 * SumAmount({i \in S : key[i] = k}, ldg))
                            \div Cardinality({i \in S : key[i] = k}) ]
      : k \in {key[i] : i \in S} }

\* the key of each line item under .values(...)
ByPortfolio == [i \in DOMAIN Catalogue |-> <<Catalogue[i].portfolio>>]
ByDepartment == [i \in DOMAIN Catalogue |-> <<Catalogue[i].department>>]
ByPortfolioProgram ==
    [i \in DOMAIN Catalogue |-> <<Catalogue[i].portfolio, Catalogue[i].program>>]
ByPortfolioDepartmentProgram ==
    [i \in DOMAIN Catalogue |->
        <<Catalogue[i].portfolio, Catalogue[i].department, Catalogue[i].program>>]

\* .order_by('-<field>'): the database returns the groups in some order in which
\* the field does not increase; the order of groups with equal values is its choice
OrderByDesc(G, field) ==
    { s \in [1..Cardinality(G) -> G] :
        /\ \A i, j \in DOMAIN s : i # j => s[i] # s[j]
        /\ \A i \in DOMAIN s : i + 1 \in DOMAIN s => s[i][field] >= s[i + 1][field] }

\* s[:n]
Take(s, n) == SubSeq(s, 1, Min(n, Len(s)))

RECURSIVE SumNums(_)
\* sum(...) of a sequence of numbers
SumNums(s) == IF s = <<>> THEN 0 ELSE Head(s) + SumNums(Tail(s))

\* num / den rounded half to even, for den > 0
RoundHalfEven(num, den) ==
    LET q == num \div den
        r == num % den
    IN  IF 2 * r < den THEN q
        ELSE IF 2 * r > den THEN q + 1
        ELSE IF q % 2 = 0 THEN q ELSE q + 1

RECURSIVE Pow10(_)
Pow10(d) == IF d = 0 THEN 1 ELSE 10 * Pow10(d - 1)

\* round(amount / total * 100, d), in units of 10^-d; total > 0
Percentage(amount, total, d) == RoundHalfEven(amount * 100 * Pow10(d), total)

TopN == 10
EducationTopN == 5

OrNames(key) == [j \in DOMAIN key |-> OrUnknown(key[j])]

(***************************************************************************)
(* Aggregation of the chat flow: AIQueryService._get_*.  Each helper wraps *)
(* its ledger access in try/except and returns an error narrative with     *)
(* total 0.  A helper's value is the set of results it can return.         *)
(***************************************************************************)
ChatHelperError(answer) ==
    [answer |-> answer, is_error |-> TRUE, total_amount |-> 0, table_data |-> <<>>, rows |-> 0]

_get_education_budget_summary(ldg, up) ==
    IF ~up THEN {ChatHelperError("Error querying education budget")}
    ELSE
    LET education_expenses == {i \in NonNull(ldg) : IsEducation(i)}
        total_budget == SumAmount(education_expenses, ldg)
        Row(dept) ==
            [ group      |-> OrNames(dept.key),
              amount     |-> dept.total_amount,
              has_pct    |-> TRUE,
              percentage |-> IF total_budget > 0
                             THEN Percentage(dept.total_amount, total_budget, 1) ELSE 0 ]
    IN  { [ answer       |-> "What is the total education budget for 2024?",
            is_error     |-> FALSE,
            total_amount |-> total_budget,
            table_data   |-> [j \in DOMAIN Take(dept_breakdown, EducationTopN)
                                |-> Row(dept_breakdown[j])],
            rows         |-> Cardinality(education_expenses) ]
          : dept_breakdown \in
              OrderByDesc(GroupBy(education_expenses, ByDepartment, ldg),
                          "total_amount") }

_get_department_comparison(ldg, up) ==
    IF ~up THEN {ChatHelperError("Error comparing departments")}
    ELSE
    { LET portfolio_summary == Take(ordered, TopN)
          total_all == SumNums([j \in DOMAIN portfolio_summary |-> portfolio_summary[j].total_amount])
          Row(item) ==
              [ group      |-> OrNames(item.key),
                amount     |-> item.total_amount,
                has_pct    |-> TRUE,
                percentage |-> IF total_all > 0
                               THEN Percentage(item.total_amount, total_all, 1) ELSE 0 ]
      IN  [ answer       |-> "Department budget comparison for 2024",
            is_error     |-> FALSE,
            total_amount |-> total_all,
            table_data   |-> [j \in DOMAIN portfolio_summary |-> Row(portfolio_summary[j])],
            rows         |-> SumNums([j \in DOMAIN portfolio_summary |-> portfolio_summary[j].count]) ]
      : ordered \in OrderByDesc(GroupBy(NonNull(ldg), ByPortfolio, ldg),
                                "total_amount") }

_get_general_budget_summary(ldg, up) ==
    IF ~up THEN {ChatHelperError("Error getting budget summary")}
    ELSE
    { [ answer       |-> "General budget summary for 2024",
        is_error     |-> FALSE,
        total_amount |-> SumAmount(NonNull(ldg), ldg),
        table_data   |-> <<>>,
        rows         |-> Cardinality(NonNull(ldg)) ] }

_get_top_expenses(ldg, up) ==
    IF ~up THEN {ChatHelperError("Error getting top expenses")}
    ELSE
    { LET top_expenses == Take(ordered, TopN)
          Row(item) ==
              [ group      |-> OrNames(item.key),
                amount     |-> item.total_amount,
                has_pct    |-> FALSE,
                percentage |-> 0 ]
      IN  [ answer       |-> "Top 10 budget expenses by amount for 2024",
            is_error     |-> FALSE,
            total_amount |-> SumNums([j \in DOMAIN top_expenses |-> top_expenses[j].total_amount]),
            table_data   |-> [j \in DOMAIN top_expenses |-> Row(top_expenses[j])],
            rows         |-> Len(top_expenses) ]
      : ordered \in OrderByDesc(GroupBy(NonNull(ldg), ByPortfolioDepartmentProgram, ldg),
                                "total_amount") }

_get_average_budgets(ldg, up) ==
    IF ~up THEN {ChatHelperError("Error getting average budgets")}
    ELSE
    { LET Row(item) ==
              [ group      |-> OrNames(item.key),
                amount     |-> item.avg_amount,
                has_pct    |-> FALSE,
                percentage |-> 0 ]
      IN  [ answer       |-> "Average budget by portfolio and program for 2024",
            is_error     |-> FALSE,
            total_amount |-> SumNums([j \in DOMAIN average_budgets |-> average_budgets[j].avg_amount]),
            table_data   |-> [j \in DOMAIN average_budgets |-> Row(average_budgets[j])],
            rows         |-> Len(average_budgets) ]
      : average_budgets \in OrderByDesc(GroupBy(NonNull(ldg), ByPortfolioProgram, ldg),
                                        "avg_amount") }

s_top == <<"t","o","p">>
s_10 == <<"1","0">>
s_highest == <<"h","i","g","h","e","s","t">>
s_total == <<"t","o","t","a","l">>
s_budget == <<"b","u","d","g","e","t">>
s_department == <<"d","e","p","a","r","t","m","e","n","t">>
s_compare == <<"c","o","m","p","a","r","e">>
s_comparison == <<"c","o","m","p","a","r","i","s","o","n">>
s_average == <<"a","v","e","r","a","g","e">>
s_avg == <<"a","v","g">>

SqlDataSources == {"budget_expenses", "portfolios", "departments"}

\* a failure result of the chat flow: success False, an error text, confidence 0.0;
\* the other keys are absent (empty here)
ChatFailure(method) ==
    [ success |-> FALSE, method |-> method, has_error |-> TRUE, answer |-> "",
      is_error |-> FALSE, executed_query |-> "", data_sources |-> {}, total_amount |-> 0,
      table_data |-> <<>>, rows |-> 0, sql_result |-> <<>>, rag_result |-> <<>>,
      has_confidence |-> TRUE, confidence |-> 0 ]

\* the if-chain of _process_sql_query, lines 187-224
ChatKindOn(q, ql) ==
        IF Contains(ql, s_education) /\ (Contains(ql, s_total) \/ Contains(ql, s_budget))
            THEN "education"
        ELSE IF Contains(ql, s_department)
                /\ (Contains(ql, s_compare) \/ Contains(ql, s_comparison))
            THEN "comparison"
        ELSE IF Contains(ql, s_top) /\ (Contains(q, s_10) \/ Contains(ql, s_highest))
            THEN "top"
        ELSE IF Contains(ql, s_average) \/ Contains(ql, s_avg)
            THEN "average"
        ELSE "general"

ChatQueryKind(q) == ChatKindOn(q, Lower(q))

\* The except branch of lines 242-248 is not reached: every helper catches its own
\* errors, and the rest of the try body reads keys that every helper result has.
ChatAggregate(kind, ldg, up) ==
    LET results ==
            IF kind = "education" THEN _get_education_budget_summary(ldg, up)
            ELSE IF kind = "comparison" THEN _get_department_comparison(ldg, up)
            ELSE IF kind = "top" THEN _get_top_expenses(ldg, up)
            ELSE IF kind = "average" THEN _get_average_budgets(ldg, up)
            ELSE _get_general_budget_summary(ldg, up)
    IN  { [ ChatFailure("SQL") EXCEPT
              !.success = TRUE,
              !.has_error = FALSE,
              !.answer = result.answer,
              !.is_error = result.is_error,
              !.executed_query = kind,
              !.data_sources = SqlDataSources,
              !.total_amount = result.total_amount,
              !.table_data = result.table_data,
              !.rows = result.rows,
              !.has_confidence = FALSE ]
          : result \in results }

_process_sql_query(q, ldg, up) == ChatAggregate(ChatQueryKind(q), ldg, up)

(***************************************************************************)
(* Aggregation of the direct flow: get_*_analysis and execute_sql_query of *)
(* data_processing/views.py.  Nothing here catches: a result with raised   *)
(* set stands for the exception leaving the function.                      *)
(***************************************************************************)
DirectRaise(err) ==
    [ raised |-> TRUE, error |-> err, has_total |-> FALSE, total |-> 0,
      total_records |-> 0, has_breakdown |-> FALSE, breakdown |-> <<>> ]

\* Q is imported inside smart_query and execute_sql_query only: the name is not
\* bound in this function nor in the module, and the first statement raises
get_education_budget_analysis(ldg, up) == {DirectRaise("NameError")}

get_top_expenses_analysis(ldg, up) ==
    IF ~up THEN {DirectRaise("DatabaseError")}
    ELSE
    { LET top_expenses == Take(ordered, TopN)
          Row(item) ==
              [ group      |-> OrNames(item.key),
                amount     |-> item.total_amount,
                has_pct    |-> FALSE,
                percentage |-> 0 ]
          breakdown == [j \in DOMAIN top_expenses |-> Row(top_expenses[j])]
      IN  [ raised |-> FALSE, error |-> "", has_total |-> TRUE,
            total         |-> SumNums([j \in DOMAIN breakdown |-> breakdown[j].amount]),
            total_records |-> Len(breakdown),
            has_breakdown |-> TRUE,
            breakdown     |-> breakdown ]
      : ordered \in OrderByDesc(GroupBy(NonNull(ldg), ByPortfolioDepartmentProgram, ldg),
                                "total_amount") }

get_portfolio_comparison_analysis(ldg, up) ==
    IF ~up THEN {DirectRaise("DatabaseError")}
    ELSE
    { LET total_budget == SumNums([j \in DOMAIN portfolio_analysis |-> portfolio_analysis[j].total_amount])
          Row(item) ==
              [ group      |-> OrNames(item.key),
                amount     |-> item.total_amount,
                has_pct    |-> TRUE,
                percentage |-> Percentage(item.total_amount, total_budget, 2) ]
      IN  IF portfolio_analysis # <<>> /\ total_budget = 0
          THEN DirectRaise("ZeroDivisionError")     \* item['amount'] / total_budget, line 717
          ELSE [ raised |-> FALSE, error |-> "", has_total |-> TRUE,
                 total         |-> total_budget,
                 total_records |-> Len(portfolio_analysis),
                 has_breakdown |-> TRUE,
                 breakdown     |-> [j \in DOMAIN portfolio_analysis
                                      |-> Row(portfolio_analysis[j])] ]
      : portfolio_analysis \in OrderByDesc(GroupBy(NonNull(ldg), ByPortfolio, ldg),
                                           "total_amount") }

get_average_budget_analysis(ldg, up) ==
    IF ~up THEN {DirectRaise("DatabaseError")}
    ELSE
    { LET Row(item) ==
              [ group      |-> OrNames(item.key),
                amount     |-> item.avg_amount,
                has_pct    |-> FALSE,
                percentage |-> 0 ]
      IN  [ raised |-> FALSE, error |-> "", has_total |-> FALSE, total |-> 0,
            total_records |-> Len(avg_analysis),
            has_breakdown |-> TRUE,
            breakdown     |-> [j \in DOMAIN avg_analysis |-> Row(avg_analysis[j])] ]
      : avg_analysis \in OrderByDesc(GroupBy(NonNull(ldg), ByPortfolio, ldg),
                                     "avg_amount") }

\* Sum and Avg over no rows are None, and the summary formats total_budget
\* with ',.2f' (line 773)
get_general_budget_analysis(ldg, up) ==
    IF ~up THEN {DirectRaise("DatabaseError")}
    ELSE IF NonNull(ldg) = {} THEN {DirectRaise("TypeError")}
    ELSE { [ raised |-> FALSE, error |-> "", has_total |-> TRUE,
             total         |-> SumAmount(NonNull(ldg), ldg),
             total_records |-> Cardinality(NonNull(ldg)),
             has_breakdown |-> FALSE,
             breakdown     |-> <<>> ] }

\* the if-chain of execute_sql_query, lines 514-560
DirectKindOn(q, query_lower) ==
        IF Contains(query_lower, s_education)
           /\ (Contains(query_lower, s_total) \/ Contains(query_lower, s_budget))
            THEN "education"
        ELSE IF Contains(query_lower, s_top)
                /\ (Contains(q, s_10) \/ Contains(query_lower, s_highest))
            THEN "top"
        ELSE IF Contains(query_lower, s_compare) \/ Contains(query_lower, s_comparison)
            THEN "comparison"
        ELSE IF Contains(query_lower, s_average) \/ Contains(query_lower, s_avg)
            THEN "average"
        ELSE "general"

DirectQueryKind(q) == DirectKindOn(q, Lower(q))

DirectRaised(err) ==
    [ raised |-> TRUE, error |-> err, type |-> "", kind |-> "", data_sources |-> {},
      has_record_count |-> FALSE, record_count |-> 0, has_total |-> FALSE, total |-> 0,
      breakdown |-> <<>>, results |-> <<>>, total_results |-> 0,
      sql_result |-> <<>>, rag_result |-> <<>> ]

DirectAggregate(kind, ldg, up) ==
    LET results ==
            IF kind = "education" THEN get_education_budget_analysis(ldg, up)
            ELSE IF kind = "top" THEN get_top_expenses_analysis(ldg, up)
            ELSE IF kind = "comparison" THEN get_portfolio_comparison_analysis(ldg, up)
            ELSE IF kind = "average" THEN get_average_budget_analysis(ldg, up)
            ELSE get_general_budget_analysis(ldg, up)
    IN  { IF result.raised THEN DirectRaised(result.error)
          ELSE [ raised           |-> FALSE,
                 error            |-> "",
                 type             |-> "sql_analysis",
                 kind             |-> kind,
                 data_sources     |-> SqlDataSources,
                 has_record_count |-> TRUE,
                 record_count     |-> result.total_records,
                 has_total        |-> result.has_total,
                 total            |-> result.total,
                 breakdown        |-> result.breakdown,
                 results          |-> <<>>,
                 total_results    |-> 0,
                 sql_result       |-> <<>>,
                 rag_result       |-> <<>> ]
          : result \in results }

execute_sql_query(q, ldg, up) == DirectAggregate(DirectQueryKind(q), ldg, up)

(***************************************************************************)
(* Lexical retrieval: RAGService.search_documents and _calculate_relevance *)
(* over the DocumentVector rows.  A relevance score is the exact fraction  *)
(* num / den.                                                              *)
(***************************************************************************)
MaxDocs == 2

DocCatalogue ==
    << [source_table |-> "procurement_records", record_id |-> 1,
        \* Supplier: Acme | status: active
        content_text |-> <<"S","u","p","p","l","i","e","r",":"," ","A","c","m","e"," ","|"," ","s","t","a","t","u","s",":"," ","a","c","t","i","v","e">>],
       [source_table |-> "finance_records", record_id |-> 1,
        \* payment: Acme contract | status: paid
        content_text |-> <<"p","a","y","m","e","n","t",":"," ","A","c","m","e"," ","c","o","n","t","r","a","c","t"," ","|"," ","s","t","a","t","u","s",":"," ","p","a","i","d">>],
       [source_table |-> "hr_records", record_id |-> 1,
        \* employee: Kim | status: active
        content_text |-> <<"e","m","p","l","o","y","e","e",":"," ","K","i","m"," ","|"," ","s","t","a","t","u","s",":"," ","a","c","t","i","v","e">>],
       [source_table |-> "hr_records", record_id |-> 2,
        \* employee: Kim | status: active (a second record of the same fields)
        content_text |-> <<"e","m","p","l","o","y","e","e",":"," ","K","i","m"," ","|"," ","s","t","a","t","u","s",":"," ","a","c","t","i","v","e">>],
       [source_table |-> "finance_records", record_id |-> 2,
        \* invoice: supplier Acme | status: paid
        content_text |-> <<"i","n","v","o","i","c","e",":"," ","s","u","p","p","l","i","e","r"," ","A","c","m","e"," ","|"," ","s","t","a","t","u","s",":"," ","p","a","i","d">>],
       [source_table |-> "procurement_records", record_id |-> 2,
        \* contract: supplier Beta | status: active
        content_text |-> <<"c","o","n","t","r","a","c","t",":"," ","s","u","p","p","l","i","e","r"," ","B","e","t","a"," ","|"," ","s","t","a","t","u","s",":"," ","a","c","t","i","v","e">>],
       [source_table |-> "finance_records", record_id |-> 3,
        \* supplier contract status
        content_text |-> <<"s","u","p","p","l","i","e","r"," ","c","o","n","t","r","a","c","t"," ","s","t","a","t","u","s">>],
       [source_table |-> "hr_records", record_id |-> 3,
        \* employee: Lee | status: leave
        content_text |-> <<"e","m","p","l","o","y","e","e",":"," ","L","e","e"," ","|"," ","s","t","a","t","u","s",":"," ","l","e","a","v","e">>] >>

DocIds == 1..Min(MaxDocs, Len(DocCatalogue))

top_k == 5

RECURSIVE SplitAcc(_, _, _)
SplitAcc(s, cur, acc) ==
    IF s = <<>> THEN (IF cur = <<>> THEN acc ELSE Append(acc, cur))
    ELSE IF Head(s) = " "
         THEN SplitAcc(Tail(s), <<>>, IF cur = <<>> THEN acc ELSE Append(acc, cur))
         ELSE SplitAcc(Tail(s), Append(cur, Head(s)), acc)

\* str.split()
Split(s) == SplitAcc(s, <<>>, <<>>)

\* str.strip()
Strip(s) ==
    IF \A i \in DOMAIN s : s[i] = " " THEN <<>>
    ELSE LET first == CHOOSE i \in DOMAIN s : s[i] # " " /\ \A j \in 1..(i - 1) : s[j] = " "
             last  == CHOOSE i \in DOMAIN s : s[i] # " " /\ \A j \in (i + 1)..Len(s) : s[j] = " "
         IN  SubSeq(s, first, last)

Reverse(s) == [i \in DOMAIN s |-> s[Len(s) + 1 - i]]

ZeroScore == [num |-> 0, den |-> 1]

ScoreGE(a, b) == a.num * b.den >= b.num * a.den

ToSet(s) == {s[i] : i \in DOMAIN s}

\* a score that weighs the two parts evenly
RelevanceOfEvenWeights(query_words, content_words) ==
    LET intersection  == Cardinality(query_words \cap content_words)
        union         == Cardinality(query_words \cup content_words)
        words         == Cardinality(content_words)
    IN  IF query_words = {} \/ content_words = {} THEN ZeroScore
        ELSE LET num == intersection * (5 * words + 5 * union)
                 den == 10 * union * words
             IN  IF num > den THEN [num |-> 1, den |-> 1] ELSE [num |-> num, den |-> den]

\* the score of two word sets
RelevanceOf(query_words, content_words) ==
    LET intersection  == Cardinality(query_words \cap content_words)
        union         == Cardinality(query_words \cup content_words)
        words         == Cardinality(content_words)
    IN  IF query_words = {} \/ content_words = {} THEN ZeroScore
        ELSE \* jaccard * 0.6 + keyword_density * 0.4, then min(relevance, 1.0)
             LET num == intersection * (6 * words + 4 * union)
                 den == 10 * union * words
             IN  IF num > den THEN [num |-> 1, den |-> 1] ELSE [num |-> num, den |-> den]

_calculate_relevance(q, content) ==
    RelevanceOf(ToSet(Split(Lower(q))), ToSet(Split(Lower(content))))

\* the place of x in a list sorted by descending score: behind every element
\* whose score is not smaller (list.sort is stable)
InsertHit(sorted, x) ==
    LET k == Cardinality({i \in DOMAIN sorted : ScoreGE(sorted[i].relevance_score, x.relevance_score)})
    IN  SubSeq(sorted, 1, k) \o <<x>> \o SubSeq(sorted, k + 1, Len(sorted))

RECURSIVE SortHits(_)
\* results.sort(key=lambda x: x['relevance_score'], reverse=True)
SortHits(s) ==
    IF s = <<>> THEN <<>>
    ELSE InsertHit(SortHits(SubSeq(s, 1, Len(s) - 1)), s[Len(s)])

\* a lookup that takes every index entry to have its record
_get_record_unchecked(vector, recs) == TRUE

\* FinanceRecord / HRRecord / ProcurementRecord .objects.get(id=...), None when
\* the record is gone
_get_record_from_vector(vector, recs) ==
    <<vector.source_table, vector.record_id>> \in recs

\* table_filter "" is None.  Q() & Q(source_table=f) is then OR-ed with one
\* icontains test per query word longer than 2; Q() alone selects every row.
\* content_text__icontains=word
IContains(content_lower, word) == Contains(content_lower, word)

\* the row test of DocumentVector.objects.filter(q_objects), lines 227-236
q_objects(v, long_words, table_filter) ==
    IF table_filter # ""
    THEN \/ v.source_table = table_filter
         \/ \E w \in long_words : IContains(Lower(v.content_text), w)
    ELSE IF long_words = {} THEN TRUE
    ELSE \E w \in long_words : IContains(Lower(v.content_text), w)

\* one entry of the result list, lines 246-257
Hit(q, v) ==
    [ source_table    |-> v.source_table,
      record_id       |-> v.record_id,
      content_text    |-> v.content_text,
      relevance_score |-> _calculate_relevance(q, v.content_text) ]

\* a search that ranks every selected row and cuts the list afterwards
SearchWithCapLast(q, long_words, table_filter, idx, recs) ==
    LET vectors == SelectSeq(Reverse(idx), LAMBDA v : q_objects(v, long_words, table_filter))
        found   == SelectSeq(vectors, LAMBDA v : _get_record_from_vector(v, recs))
    IN  Take(SortHits([i \in DOMAIN found |-> Hit(q, found[i])]), top_k)

SearchWith(q, long_words, table_filter, idx, recs) ==
    LET \* .order_by('-created_at')[:self.top_k]
        vectors == Take(SelectSeq(Reverse(idx), LAMBDA v : q_objects(v, long_words, table_filter)),
                        top_k)
        found   == SelectSeq(vectors, LAMBDA v : _get_record_from_vector(v, recs))
    IN  SortHits([i \in DOMAIN found |-> Hit(q, found[i])])

search_documents(q, table_filter, idx, recs, up) ==
    IF ~up THEN <<>>                                    \* except, line 265
    ELSE SearchWith(q, {w \in ToSet(Split(Lower(q))) : Len(w) > 2}, table_filter, idx, recs)

(***************************************************************************)
(* Chat flow: AIQueryService.process_query and the engines it calls.       *)
(***************************************************************************)
\* _generate_rag_answer reads result['record_summary'] of the first hits, a key
\* search_documents does not set: with any hit it raises KeyError, which
\* _process_rag_query catches (line 285)
_process_rag_query(q, idx, recs, up) ==
    LET search_results == search_documents(q, "", idx, recs, up)
    IN  IF search_results # <<>>
        THEN ChatFailure("RAG")
        ELSE [ ChatFailure("RAG") EXCEPT
                 !.has_error = FALSE,
                 !.answer = "no related records" ]

_process_hybrid_query(q, ldg, idx, recs, up) ==
    { LET rag_result == _process_rag_query(q, idx, recs, up)
      IN  [ ChatFailure("HYBRID") EXCEPT
              !.success = TRUE,
              !.has_error = FALSE,
              !.answer = "hybrid",
              !.sql_result = IF sql_result.success THEN <<sql_result>> ELSE <<>>,
              !.rag_result = IF rag_result.success THEN <<rag_result>> ELSE <<>>,
              !.data_sources =
                  (IF sql_result.success THEN sql_result.data_sources ELSE {})
                  \cup (IF rag_result.success THEN rag_result.data_sources ELSE {}),
              !.has_confidence = FALSE ]
      : sql_result \in _process_sql_query(q, ldg, up) }

\* in tenths
_calculate_confidence(result) ==
    LET base_confidence ==
            5 + (IF result.method = "SQL" THEN 3
                 ELSE IF result.method = "RAG" THEN 2
                 ELSE IF result.method = "HYBRID" THEN 4
                 ELSE 0)
        sources == IF Cardinality(result.data_sources) > 1 THEN 1 ELSE 0
        results == IF result.table_data # <<>> THEN 1 ELSE 0
    IN  Min(base_confidence + sources + results, 10)

(***************************************************************************)
(* A response, as the handler returns it.  status: "ok", "error" (the      *)
(* generic error envelope) or "bad_request".  path is the engine path the  *)
(* handler took; sql_ran / rag_ran tell whether that engine call returned. *)
(***************************************************************************)
NoLLM == LLMFailure("error")

NoResp ==
    [ flow |-> "none", query |-> <<>>, llm |-> NoLLM, pref |-> "", status |-> "",
      success |-> FALSE, method |-> "", has_confidence |-> FALSE, confidence |-> 0,
      path |-> "none", sql_ran |-> FALSE, rag_ran |-> FALSE,
      intent |-> NoIntent.result, result |-> ChatFailure(""), evidence_items |-> <<>> ]

PathOf(method) ==
    IF method = "SQL" THEN "SQL" ELSE IF method = "RAG" THEN "RAG" ELSE "HYBRID"

PreviewLength == 100

\* item.get('content_text', '')[:100] + "..." if longer than 100, else the text
content_preview(content_text) ==
    IF Len(content_text) > PreviewLength
    THEN SubSeq(content_text, 1, PreviewLength) \o <<".", ".", ".">>
    ELSE content_text

\* evidence_items of _generate_evidence_package: the keys are read from the top
\* level of the result, where a HYBRID result has neither executed_query nor
\* table_data
_generate_evidence_package(result) ==
    LET sql_items ==
            IF result.method \in {"SQL", "HYBRID"} /\ result.executed_query # ""
            THEN << [ type            |-> "sql_query",
                      content         |-> result.executed_query,
                      rows_affected   |-> result.rows,
                      source_table    |-> "",
                      record_id       |-> 0,
                      relevance_score |-> ZeroScore,
                      content_preview |-> <<>> ] >>
            ELSE <<>>
        shown == Take(result.table_data, 5)
        rag_items ==
            IF result.method \in {"RAG", "HYBRID"} /\ result.table_data # <<>>
            THEN [ i \in DOMAIN shown |->
                     [ type            |-> "document_retrieval",
                       content         |-> "",
                       rows_affected   |-> 0,
                       source_table    |-> shown[i].source_table,
                       record_id       |-> shown[i].record_id,
                       relevance_score |-> shown[i].relevance_score,
                       content_preview |-> content_preview(shown[i].content_text) ] ]
            ELSE <<>>
    IN  sql_items \o rag_items

\* process_query: _analyze_intent, dispatch on intent['method'], confidence; a
\* classification without the method key raises KeyError into the except of line 82
process_query(q, llm, ldg, idx, recs, up) ==
    LET intent_analysis == _analyze_intent(q, llm)
        base == [ NoResp EXCEPT !.flow = "chat", !.query = q, !.llm = llm,
                                !.intent = intent_analysis ]
    IN  IF ~intent_analysis.has_method
        THEN { [ base EXCEPT !.status = "error", !.has_confidence = TRUE ] }
        ELSE
        LET path == PathOf(intent_analysis.method)
            results ==
                IF path = "SQL" THEN _process_sql_query(q, ldg, up)
                ELSE IF path = "RAG" THEN {_process_rag_query(q, idx, recs, up)}
                ELSE _process_hybrid_query(q, ldg, idx, recs, up)
        IN  { [ base EXCEPT
                  !.status = "ok",
                  !.success = result.success,
                  !.method = result.method,
                  !.has_confidence = TRUE,
                  !.confidence = _calculate_confidence(result),
                  !.path = path,
                  !.sql_ran = path \in {"SQL", "HYBRID"},
                  !.rag_ran = path \in {"RAG", "HYBRID"},
                  !.result = [ result EXCEPT
                                 !.has_confidence = TRUE,
                                 !.confidence = _calculate_confidence(result) ],
                  !.evidence_items = _generate_evidence_package(result) ]
              : result \in results }

(***************************************************************************)
(* Direct flow: smart_query and execute_rag_query / execute_hybrid_query.  *)
(***************************************************************************)
execute_rag_query(q, idx, recs, up) ==
    LET search_results == search_documents(q, "", idx, recs, up)
    IN  [ DirectRaised("") EXCEPT
            !.raised = FALSE,
            !.type = "document_retrieval",
            !.total_results = Len(search_results),
            !.results = Take(search_results, 5),
            !.data_sources = {search_results[i].source_table : i \in DOMAIN search_results} ]

\* no try: an exception of execute_sql_query leaves before execute_rag_query is called
execute_hybrid_query(q, ldg, idx, recs, up) ==
    { IF sql_result.raised THEN sql_result
      ELSE LET rag_result == execute_rag_query(q, idx, recs, up)
           IN  [ DirectRaised("") EXCEPT
                   !.raised = FALSE,
                   !.type = "hybrid_analysis",
                   !.sql_result = <<sql_result>>,
                   !.rag_result = <<rag_result>>,
                   !.data_sources = sql_result.data_sources \cup rag_result.data_sources ]
      : sql_result \in execute_sql_query(q, ldg, up) }

\* in tenths
calculate_confidence_score(result, intent_analysis) ==
    LET method == IF intent_analysis.has_method THEN intent_analysis.method ELSE "UNKNOWN"
        base_confidence ==
            5 + (IF method = "SQL" THEN 3
                 ELSE IF method = "RAG" THEN 2
                 ELSE IF method = "HYBRID" THEN 4
                 ELSE 0)
        sources == IF Cardinality(result.data_sources) > 1 THEN 1 ELSE 0
        counted == IF result.has_record_count /\ result.record_count > 0 THEN 1 ELSE 0
    IN  Min(base_confidence + sources + counted, 10)

MethodPreferences == {"auto", "sql", "rag", "hybrid"}

\* a preference taken as it was sent
SamePreference(p) == p

\* method_preference.upper()
UpperPreference(p) ==
    IF p = "sql" THEN "SQL" ELSE IF p = "rag" THEN "RAG"
    ELSE IF p = "hybrid" THEN "HYBRID" ELSE IF p = "auto" THEN "AUTO" ELSE p

\* The value is the data handed to Response(); the 500 envelope has no confidence.
smart_query(raw, pref, llm, ldg, idx, recs, up) ==
    LET q == Strip(raw)
        base == [ NoResp EXCEPT !.flow = "direct", !.query = q, !.llm = llm, !.pref = pref ]
    IN  IF q = <<>> THEN { [ base EXCEPT !.status = "bad_request" ] }
        ELSE
        LET classified == _analyze_intent(q, llm)
            intent_analysis ==
                IF pref # "auto"
                THEN [ classified EXCEPT !.has_method = TRUE, !.method = UpperPreference(pref) ]
                ELSE classified
            envelope == [ base EXCEPT !.status = "error", !.method = "ERROR",
                                      !.intent = intent_analysis ]
        IN  IF ~intent_analysis.has_method THEN {envelope}       \* KeyError, line 461
            ELSE
            LET path == PathOf(intent_analysis.method)
                results ==
                    IF path = "SQL" THEN execute_sql_query(q, ldg, up)
                    ELSE IF path = "RAG" THEN {execute_rag_query(q, idx, recs, up)}
                    ELSE execute_hybrid_query(q, ldg, idx, recs, up)
            IN  { IF result.raised
                  THEN [ envelope EXCEPT !.path = path, !.result = result ]
                  ELSE [ base EXCEPT
                           !.status = "ok",
                           !.success = TRUE,
                           !.method = intent_analysis.method,
                           !.has_confidence = TRUE,
                           !.confidence = calculate_confidence_score(result, intent_analysis),
                           !.path = path,
                           !.sql_ran = path \in {"SQL", "HYBRID"},
                           !.rag_ran = path \in {"RAG", "HYBRID"},
                           !.intent = intent_analysis,
                           !.result = result ]
                  : result \in results }


(***************************************************************************)
(* Chat view: chat_query of chat/views.py, which validates the request,    *)
(* stores the session and the two messages, and calls process_query.       *)
(***************************************************************************)
NoChat == [sessions |-> 0, messages |-> 0]

\* a validation that lets every text through
validate_query_lenient(value) == [valid |-> TRUE, value |-> Strip(value)]

\* ChatQuerySerializer.validate_query: a blank text is a ValidationError, else
\* the stripped text is the validated query
validate_query(value) == [valid |-> Strip(value) # <<>>, value |-> Strip(value)]

\* session_id of the request: "" is none, "known" the id of a stored session
SessionRefs == {"", "known", "unknown"}

\* the response and the stored rows after chat_query.  With the database down
\* the session lookup or create raises into the except of line 372.
chat_query(raw, session_id, llm, ldg, idx, recs, up, store) ==
    LET serializer == validate_query(raw)
        base == [ NoResp EXCEPT !.flow = "chat", !.query = serializer.value, !.llm = llm ]
    IN  IF ~serializer.valid
        THEN { [ resp |-> [ base EXCEPT !.status = "bad_request" ], chat |-> store ] }
        ELSE IF ~up
        THEN { [ resp |-> [ base EXCEPT !.status = "error" ], chat |-> store ] }
        ELSE IF session_id = "unknown" \/ (session_id = "known" /\ store.sessions = 0)
        THEN { [ resp |-> [ base EXCEPT !.status = "not_found" ], chat |-> store ] }
        ELSE { [ resp |-> ai_result,
                 chat |-> [ sessions |-> store.sessions + (IF session_id = "" THEN 1 ELSE 0),
                            messages |-> store.messages + 2 ] ]
               : ai_result \in process_query(serializer.value, llm, ldg, idx, recs, up) }

(***************************************************************************)
(* Audit ids.  The chat flow numbers an id with hash(query) % 1000, the    *)
(* direct flow with the first eight hex digits of a fresh uuid4; the date  *)
(* part is the same for all requests of one day and is left out.  The str  *)
(* hash is seeded per process: a text keeps the hash it got first, and     *)
(* which hash that is, is open.                                            *)
(***************************************************************************)
HashModulus == 1000

\* some values of hash(query), two of them with the same last three digits
HashSamples == {2017, 5017, 2018}

\* some values of str(uuid.uuid4())[:8], read as a number
UuidSamples == {163, 164}

NoAuditId == [prefix |-> "", number |-> 0]

NoAudit == [hashes |-> {}, log |-> <<>>]

\* metadata.audit_id of _process_sql_query, _process_rag_query, _process_hybrid_query
chat_audit_id(method, h) ==
    [ prefix |-> IF method = "SQL" THEN "AUD" ELSE IF method = "RAG" THEN "RAG" ELSE "HYB",
      number |-> h % HashModulus ]

\* audit_id of generate_evidence_package, from its own uuid4
generate_evidence_package(uuid4) == [prefix |-> "AUD", number |-> uuid4]

\* audit_id of generate_audit_info, from its own uuid4
generate_audit_info(uuid4) == [prefix |-> "AUD", number |-> uuid4]
(***************************************************************************)
(* The system: the ledger is filled by the budget import, the index by     *)
(* vectorize_documents, the database goes down and comes back, and queries *)
(* arrive on the chat flow and on the direct flow.  A request is handled   *)
(* synchronously against the ledger and index as they are: resp holds its  *)
(* response until it is delivered, and nothing of it is kept afterwards.   *)
(***************************************************************************)
\* "total education budget"
Q_education ==
    <<"t","o","t","a","l"," ","e","d","u","c","a","t","i","o","n"," ","b","u","d","g","e","t">>

\* "top 10 expenses"
Q_top ==
    <<"t","o","p"," ","1","0"," ","e","x","p","e","n","s","e","s">>

\* "compare portfolio spending"
Q_compare ==
    <<"c","o","m","p","a","r","e"," ","p","o","r","t","f","o","l","i","o"," ","s","p","e","n","d","i","n","g">>

\* "Compare department spending"
Q_compare_dept ==
    <<"C","o","m","p","a","r","e"," ","d","e","p","a","r","t","m","e","n","t"," ","s","p","e","n","d","i","n","g">>

\* "average spending"
Q_average ==
    <<"a","v","e","r","a","g","e"," ","s","p","e","n","d","i","n","g">>

\* "spending overview"
Q_general ==
    <<"s","p","e","n","d","i","n","g"," ","o","v","e","r","v","i","e","w">>

\* "find supplier contract"
Q_rag ==
    <<"f","i","n","d"," ","s","u","p","p","l","i","e","r"," ","c","o","n","t","r","a","c","t">>

\* "how much budget and supplier contract"
Q_hybrid ==
    <<"h","o","w"," ","m","u","c","h"," ","b","u","d","g","e","t"," ","a","n","d"," ","s","u","p","p","l","i","e","r"," ","c","o","n","t","r","a","c","t">>

\* "top highest department comparison"
Q_top_compare ==
    <<"t","o","p"," ","h","i","g","h","e","s","t"," ","d","e","p","a","r","t","m","e","n","t"," ","c","o","m","p","a","r","i","s","o","n">>

\* "  "
Q_blank ==
    <<" "," ">>

FlowQueries ==
    {Q_education, Q_top, Q_compare, Q_average, Q_general, Q_rag, Q_hybrid, Q_blank}

FlowLLM ==
    {LLMFailure("timeout"), LLMJson(TRUE, "HYBRID"), LLMJson(TRUE, "sql"), LLMJson(FALSE, "")}

\* the chat view rejects a blank message before process_query is called
ChatQueries == FlowQueries \ {Q_blank}

\* the classifier of the aggregation runs: the external model answers SQL
AggLLM == LLMJson(TRUE, "SQL")

\* the queries of the aggregation runs: one of each kind in each flow
AggQueries ==
    {Q_education, Q_top, Q_compare, Q_compare_dept, Q_top_compare, Q_average, Q_general}

Amounts == {NullRow} \cup {AmountRow(a) : a \in 0..MaxAmount}

\* CSV files of the budget import, as the <<line item, row>> pairs they hold
BudgetFiles ==
    { << <<1, AmountRow(0)>>, <<2, AmountRow(0)>> >>,
      << <<1, NullRow>> >>,
      << <<1, AmountRow(1)>> >>,
      << <<1, AmountRow(1)>>, <<2, AmountRow(1)>> >>,
      << <<2, AmountRow(2)>> >> }

DocVector(d) ==
    [ source_table |-> DocCatalogue[d].source_table,
      record_id    |-> DocCatalogue[d].record_id,
      content_text |-> DocCatalogue[d].content_text,
      content_hash |-> DocCatalogue[d].content_text ]

Init ==
    /\ query = <<>>
    /\ intent = NoIntent
    /\ ledger = EmptyLedger
    /\ dbUp = TRUE
    /\ index = <<>>
    /\ records = {<<DocCatalogue[d].source_table, DocCatalogue[d].record_id>> : d \in DocIds}
    /\ resp = NoResp
    /\ chat = NoChat
    /\ audit = NoAudit

\* one run of import_budget: a BudgetExpense row is created for every line of the file
ImportBudget(csv) ==
    /\ resp = NoResp
    /\ dbUp
    /\ \A k \in DOMAIN csv : csv[k][1] \in LineItems /\ ledger[csv[k][1]] = NoRow
    /\ ledger' = [i \in LineItems |->
                    IF \E k \in DOMAIN csv : csv[k][1] = i
                    THEN csv[CHOOSE k \in DOMAIN csv : csv[k][1] = i][2]
                    ELSE ledger[i]]
    /\ UNCHANGED <<query, intent, dbUp, index, records, resp, chat, audit>>

\* a run on a file of one line
ImportRow(i, row) == ImportBudget(<< <<i, row>> >>)

DbFails ==
    /\ resp = NoResp
    /\ dbUp
    /\ dbUp' = FALSE
    /\ UNCHANGED <<query, intent, ledger, index, records, resp, chat, audit>>

DbRecovers ==
    /\ resp = NoResp
    /\ ~dbUp
    /\ dbUp' = TRUE
    /\ UNCHANGED <<query, intent, ledger, index, records, resp, chat, audit>>

\* _vectorize_*_record: skip when the content hash is stored already
VectorizeRecord(d) ==
    /\ resp = NoResp
    /\ dbUp
    /\ <<DocCatalogue[d].source_table, DocCatalogue[d].record_id>> \in records
    /\ ~\E i \in DOMAIN index : index[i].content_hash = DocVector(d).content_hash
    /\ index' = Append(index, DocVector(d))
    /\ UNCHANGED <<query, intent, ledger, dbUp, records, resp, chat, audit>>

ProcessQuery(q, llm) ==
    /\ resp = NoResp
    /\ resp' \in process_query(q, llm, ledger, index, records, dbUp)
    /\ UNCHANGED <<query, intent, ledger, dbUp, index, records, chat, audit>>

SmartQuery(q, pref, llm) ==
    /\ resp = NoResp
    /\ resp' \in smart_query(q, pref, llm, ledger, index, records, dbUp)
    /\ UNCHANGED <<query, intent, ledger, dbUp, index, records, chat, audit>>

\* the response leaves with the HTTP reply
Deliver ==
    /\ resp # NoResp
    /\ resp' = NoResp
    /\ UNCHANGED <<query, intent, ledger, dbUp, index, records, chat, audit>>

Next ==
    \/ \E csv \in BudgetFiles : ImportBudget(csv)
    \/ DbFails
    \/ DbRecovers
    \/ \E d \in DocIds : VectorizeRecord(d)
    \/ \E q \in ChatQueries, llm \in FlowLLM : ProcessQuery(q, llm)
    \/ \E q \in FlowQueries, pref \in MethodPreferences, llm \in FlowLLM : SmartQuery(q, pref, llm)
    \/ Deliver

Spec == Init /\ [][Next]_vars

(***************************************************************************)
(* Aggregation runs: the ledger is filled row by row with every amount up  *)
(* to MaxAmount, and each kind of aggregation is asked for in both flows,  *)
(* the classifier answering SQL.                                           *)
(***************************************************************************)
NextAgg ==
    \/ \E i \in LineItems, row \in Amounts : ImportRow(i, row)
    \/ DbFails
    \/ DbRecovers
    \/ \E q \in AggQueries : ProcessQuery(q, AggLLM)
    \/ \E q \in AggQueries : SmartQuery(q, "auto", AggLLM)
    \/ Deliver

SpecAgg == Init /\ [][NextAgg]_vars

(***************************************************************************)
(* Classification runs: one query text, classified by the fallback alone   *)
(* or by _analyze_intent under some behaviour of the external model.       *)
(***************************************************************************)
MaxPhrases == 2

Phrases ==
    << <<"W","h","a","t"," ","i","s">>,
       <<"s","h","o","w"," ","m","e">>,
       <<"t","e","l","l"," ","m","e"," ","a","b","o","u","t">>,
       <<"t","o","t","a","l">>,
       <<"T","o","p">>,
       <<"f","i","n","d">>,
       <<"d","e","t","a","i","l","s">>,
       <<"s","t","o","p","s">>,
       <<"x","y","z">> >>

Range(s) == {s[i] : i \in DOMAIN s}

\* "What is the total education budget for 2024-25?"
Q_doc_education ==
    <<"W","h","a","t"," ","i","s"," ","t","h","e"," ","t","o","t","a","l",
      " ","e","d","u","c","a","t","i","o","n"," ","b","u","d","g","e","t",
      " ","f","o","r"," ","2","0","2","4","-","2","5","?">>

\* "Show me the top 10 highest expenses"
Q_doc_top ==
    <<"S","h","o","w"," ","m","e"," ","t","h","e"," ","t","o","p"," ","1",
      "0"," ","h","i","g","h","e","s","t"," ","e","x","p","e","n","s","e",
      "s">>

\* "What is the average budget by department?"
Q_doc_average ==
    <<"W","h","a","t"," ","i","s"," ","t","h","e"," ","a","v","e","r","a",
      "g","e"," ","b","u","d","g","e","t"," ","b","y"," ","d","e","p","a",
      "r","t","m","e","n","t","?">>

\* "Show me the general budget overview"
Q_doc_general ==
    <<"S","h","o","w"," ","m","e"," ","t","h","e"," ","g","e","n","e","r",
      "a","l"," ","b","u","d","g","e","t"," ","o","v","e","r","v","i","e",
      "w">>

\* the example questions of the smart_query documentation and of test_smart_query
DocumentedQueries == {Q_doc_education, Q_doc_top, Q_doc_average, Q_doc_general}

ClassifyQueries ==
    {JoinWords(ws) : ws \in UNION {[1..n -> Range(Phrases)] : n \in 1..MaxPhrases}}
        \cup DocumentedQueries

InitClassify ==
    /\ query \in ClassifyQueries
    /\ intent = NoIntent
    /\ ledger = <<>>
    /\ dbUp = TRUE
    /\ index = <<>>
    /\ records = {}
    /\ resp = NoResp
    /\ chat = NoChat
    /\ audit = NoAudit

RuleBased ==
    /\ intent' = [done |-> TRUE, by |-> "rules", llm |-> NoLLM,
                  result |-> _rule_based_analysis(query)]
    /\ UNCHANGED <<query, ledger, dbUp, index, records, resp, chat, audit>>

AnalyzeIntent ==
    \E llm \in LLMBehaviours :
        /\ intent' = [done |-> TRUE, by |-> "analyze", llm |-> llm,
                      result |-> _analyze_intent(query, llm)]
        /\ UNCHANGED <<query, ledger, dbUp, index, records, resp, chat, audit>>

NextClassify == RuleBased \/ AnalyzeIntent

SpecClassify == InitClassify /\ [][NextClassify]_vars


(***************************************************************************)
(* Index runs: source records come and go, the vectorize_documents command *)
(* is run with and without --force, and search_documents is called with    *)
(* and without a table filter.                                             *)
(***************************************************************************)
MaxRecords == 7

RecordIds == 1..Min(MaxRecords, Len(DocCatalogue))

RecordOf(d) == <<DocCatalogue[d].source_table, DocCatalogue[d].record_id>>

\* FinanceRecord.objects.all() and the like: the records of one table, here in
\* catalogue order
RecordsOf(table, recs) ==
    SelectSeq([d \in DOMAIN DocCatalogue |-> d],
              LAMBDA d : DocCatalogue[d].source_table = table /\ RecordOf(d) \in recs)

\* a step that stores the text whether or not its hash is stored
_vectorize_record_unchecked(idx, d) == Append(idx, DocVector(d))

\* _vectorize_finance_record, _vectorize_hr_record, _vectorize_procurement_record:
\* return when a row of that content hash exists, else create the row
_vectorize_record(idx, d) ==
    IF \E i \in DOMAIN idx : idx[i].content_hash = DocVector(d).content_hash
    THEN idx
    ELSE Append(idx, DocVector(d))

RECURSIVE VectorizeAll(_, _)
\* for record in records: self._vectorize_*_record(record)
VectorizeAll(idx, ds) ==
    IF ds = <<>> THEN idx
    ELSE VectorizeAll(_vectorize_record(idx, Head(ds)), Tail(ds))

\* one of the three blocks of vectorize_documents
VectorizeTable(idx, table, recs, force_rebuild) ==
    VectorizeAll(IF force_rebuild
                 THEN SelectSeq(idx, LAMBDA v : v.source_table # table)
                 ELSE idx,
                 RecordsOf(table, recs))

\* the index after a run and the stats it returns; with the database down the
\* first query raises and the outer except returns success False
vectorize_documents(force_rebuild, idx, recs, up) ==
    IF ~up
    THEN [ index |-> idx, success |-> FALSE, force_rebuild |-> force_rebuild,
           finance_records |-> 0, hr_records |-> 0, procurement_records |-> 0,
           total_vectors |-> 0 ]
    ELSE LET finance     == VectorizeTable(idx, "finance_records", recs, force_rebuild)
             hr          == VectorizeTable(finance, "hr_records", recs, force_rebuild)
             procurement == VectorizeTable(hr, "procurement_records", recs, force_rebuild)
         IN  [ index               |-> procurement,
               success             |-> TRUE,
               force_rebuild       |-> force_rebuild,
               finance_records     |-> Len(RecordsOf("finance_records", recs)),
               hr_records          |-> Len(RecordsOf("hr_records", recs)),
               procurement_records |-> Len(RecordsOf("procurement_records", recs)),
               total_vectors       |-> Len(procurement) ]

\* "supplier contract status"
Q_status ==
    <<"s","u","p","p","l","i","e","r"," ","c","o","n","t","r","a","c","t"," ","s","t","a","t","u","s">>

\* "it is"
Q_short ==
    <<"i","t"," ","i","s">>

\* the calls of search_documents as <<query, table_filter>>; "" is a call
\* without table_filter
SearchCalls ==
    { <<Q_status, "">>, <<Q_status, "finance_records">>, <<Q_short, "">>, <<Q_blank, "">> }

\* the records that are stored or still referred to by an index entry
Known(recs, idx) ==
    {d \in DOMAIN DocCatalogue :
        \/ RecordOf(d) \in recs
        \/ \E i \in DOMAIN idx : <<idx[i].source_table, idx[i].record_id>> = RecordOf(d)}

\* the canonical text of every stored record is in the index
AllIndexed(recs, idx) ==
    \A e \in DOMAIN DocCatalogue :
        RecordOf(e) \in recs
            => \E i \in DOMAIN idx : idx[i].content_hash = DocVector(e).content_hash

\* a record is saved in one of the three source tables; the records arrive in
\* catalogue order, each after a run has indexed the records stored before it
CreateRecord(d) ==
    /\ resp = NoResp
    /\ dbUp
    /\ d \notin Known(records, index)
    /\ AllIndexed(records, index)
    /\ \A e \in 1..(d - 1) : e \in Known(records, index)
    /\ records' = records \cup {RecordOf(d)}
    /\ UNCHANGED <<query, intent, ledger, dbUp, index, resp, chat, audit>>

\* a record whose text is indexed is deleted while every index entry has its
\* record; nothing cascades to the DocumentVector rows
DeleteRecord(d) ==
    /\ resp = NoResp
    /\ dbUp
    /\ RecordOf(d) \in records
    /\ \E i \in DOMAIN index : index[i].content_hash = DocVector(d).content_hash
    /\ \A i \in DOMAIN index : <<index[i].source_table, index[i].record_id>> \in records
    /\ records' = records \ {RecordOf(d)}
    /\ UNCHANGED <<query, intent, ledger, dbUp, index, resp, chat, audit>>

\* manage.py vectorize_documents [--force]
VectorizeDocuments(force_rebuild) ==
    /\ resp = NoResp
    /\ LET run == vectorize_documents(force_rebuild, index, records, dbUp)
       IN  /\ index' = run.index
           /\ resp' = [NoResp EXCEPT
                         !.flow = "vectorize",
                         !.status = IF run.success THEN "ok" ELSE "error",
                         !.success = run.success,
                         !.result = [ force_rebuild       |-> run.force_rebuild,
                                      finance_records     |-> run.finance_records,
                                      hr_records          |-> run.hr_records,
                                      procurement_records |-> run.procurement_records,
                                      total_vectors       |-> run.total_vectors ]]
    /\ UNCHANGED <<query, intent, ledger, dbUp, records, chat, audit>>

\* a call of rag_service.search_documents(query, table_filter)
Search(q, table_filter) ==
    /\ resp = NoResp
    /\ resp' = [NoResp EXCEPT
                  !.flow = "search",
                  !.query = q,
                  !.status = "ok",
                  !.result = [ table_filter |-> table_filter,
                               hits |-> search_documents(q, table_filter, index, records, dbUp) ]]
    /\ UNCHANGED <<query, intent, ledger, dbUp, index, records, chat, audit>>

NextSearch ==
    \/ \E d \in RecordIds : CreateRecord(d)
    \/ \E d \in RecordIds : DeleteRecord(d)
    \/ \E force_rebuild \in BOOLEAN : VectorizeDocuments(force_rebuild)
    \/ \E call \in SearchCalls : Search(call[1], call[2])
    \/ DbFails
    \/ DbRecovers
    \/ Deliver

SpecSearch == Init /\ [][NextSearch]_vars

(***************************************************************************)
(* Entity extraction: GovernmentDataRetriever.extract_intent_and_entities  *)
(* of chat/services.py.  A list is gone through in order and a later match *)
(* overwrites an earlier one.                                              *)
(***************************************************************************)
\* line 57
dashboard_words ==
    << <<"d","a","s","h","b","o","a","r","d">>,
       <<"o","v","e","r","v","i","e","w">>,
       <<"s","u","m","m","a","r","y">>,
       <<"t","o","t","a","l">>,
       <<"s","h","o","w"," ","m","e">> >>

\* line 61
budget_words ==
    << <<"b","u","d","g","e","t">>,
       <<"s","p","e","n","d","i","n","g">>,
       <<"a","l","l","o","c","a","t","i","o","n">>,
       <<"m","o","n","e","y">>,
       <<"c","o","s","t">>,
       <<"e","x","p","e","n","s","e">>,
       <<"f","i","n","a","n","c","i","a","l">> >>

\* line 66
portfolio_words ==
    << <<"p","o","r","t","f","o","l","i","o">>,
       <<"p","o","r","t","f","o","l","i","o","s">>,
       <<"t","o","p"," ","p","o","r","t","f","o","l","i","o">>,
       <<"l","a","r","g","e","s","t"," ","p","o","r","t","f","o","l","i","o">>,
       <<"b","i","g","g","e","s","t"," ","p","o","r","t","f","o","l","i","o">> >>

\* line 70
ranking_words ==
    << <<"t","o","p">>,
       <<"l","a","r","g","e","s","t">>,
       <<"b","i","g","g","e","s","t">>,
       <<"h","i","g","h","e","s","t">>,
       <<"r","a","n","k","i","n","g">>,
       <<"l","i","s","t">>,
       <<"c","o","m","p","a","r","e">>,
       <<"c","o","m","p","a","r","i","s","o","n">>,
       <<"v","s">>,
       <<"v","e","r","s","u","s">> >>

\* line 74
breakdown_words ==
    << <<"b","r","e","a","k","d","o","w","n">>,
       <<"a","n","a","l","y","s","i","s">>,
       <<"d","i","s","t","r","i","b","u","t","i","o","n">>,
       <<"c","a","t","e","g","o","r","i","e","s">>,
       <<"t","y","p","e","s">>,
       <<"h","o","w"," ","m","u","c","h">> >>

\* line 78
trend_words ==
    << <<"t","r","e","n","d","s">>,
       <<"c","h","a","n","g","e">>,
       <<"g","r","o","w","t","h">>,
       <<"o","v","e","r"," ","t","i","m","e">>,
       <<"h","i","s","t","o","r","i","c","a","l">>,
       <<"y","e","a","r"," ","o","v","e","r"," ","y","e","a","r">>,
       <<"p","r","e","v","i","o","u","s"," ","y","e","a","r">> >>

\* line 82
amount_words ==
    << <<"h","o","w"," ","m","u","c","h">>,
       <<"t","o","t","a","l">>,
       <<"a","m","o","u","n","t">>,
       <<"v","a","l","u","e">>,
       <<"s","p","e","n","d">>,
       <<"c","o","s","t">> >>

\* departments, lines 87-92
retriever_departments ==
    << <<"h","e","a","l","t","h">>,
       <<"e","d","u","c","a","t","i","o","n">>,
       <<"d","e","f","e","n","c","e">>,
       <<"d","e","f","e","n","s","e">>,
       <<"t","r","e","a","s","u","r","y">>,
       <<"s","o","c","i","a","l"," ","s","e","r","v","i","c","e","s">>,
       <<"i","n","f","r","a","s","t","r","u","c","t","u","r","e">>,
       <<"a","g","r","i","c","u","l","t","u","r","e">>,
       <<"e","n","v","i","r","o","n","m","e","n","t">>,
       <<"h","o","m","e"," ","a","f","f","a","i","r","s">>,
       <<"f","i","n","a","n","c","e">>,
       <<"f","o","r","e","i","g","n"," ","a","f","f","a","i","r","s">>,
       <<"i","n","d","u","s","t","r","y">>,
       <<"c","o","m","m","u","n","i","c","a","t","i","o","n","s">>,
       <<"a","t","t","o","r","n","e","y"," ","g","e","n","e","r","a","l">>,
       <<"p","r","i","m","e"," ","m","i","n","i","s","t","e","r">>,
       <<"i","m","m","i","g","r","a","t","i","o","n">> >>

\* lines 100-104
portfolios ==
    << <<"h","e","a","l","t","h"," ","a","n","d"," ","a","g","e","d"," ","c","a","r","e">>,
       <<"e","d","u","c","a","t","i","o","n">>,
       <<"d","e","f","e","n","c","e">>,
       <<"t","r","e","a","s","u","r","y">>,
       <<"s","o","c","i","a","l"," ","s","e","r","v","i","c","e","s">>,
       <<"i","n","f","r","a","s","t","r","u","c","t","u","r","e">>,
       <<"a","g","r","i","c","u","l","t","u","r","e">>,
       <<"e","n","v","i","r","o","n","m","e","n","t">>,
       <<"h","o","m","e"," ","a","f","f","a","i","r","s">>,
       <<"a","t","t","o","r","n","e","y"," ","g","e","n","e","r","a","l">> >>

\* line 112
fiscal_years ==
    << <<"2","0","2","4","-","2","5">>,
       <<"2","0","2","3","-","2","4">>,
       <<"2","0","2","5","-","2","6">>,
       <<"2","0","2","2","-","2","3">>,
       <<"2","0","2","6","-","2","7">>,
       <<"2","0","2","7","-","2","8">> >>

\* line 118
years ==
    << <<"2","0","2","4">>,
       <<"2","0","2","3">>,
       <<"2","0","2","2">>,
       <<"2","0","2","1">>,
       <<"2","0","2","0">>,
       <<"2","0","2","5">>,
       <<"2","0","2","6">>,
       <<"2","0","2","7">>,
       <<"2","0","2","8">> >>

\* line 125
programs ==
    << <<"m","e","d","i","c","a","r","e">>,
       <<"n","d","i","s">>,
       <<"j","o","b","s","e","e","k","e","r">>,
       <<"a","g","e","d"," ","c","a","r","e">>,
       <<"c","h","i","l","d","c","a","r","e">>,
       <<"u","n","i","v","e","r","s","i","t","y">>,
       <<"h","o","s","p","i","t","a","l">> >>

Digits == <<"0","1","2","3","4","5","6","7","8","9">>

DigitValue(c) == (CHOOSE i \in DOMAIN Digits : Digits[i] = c) - 1

RECURSIVE ParseInt(_)
\* int(s) of a string of digits
ParseInt(s) ==
    IF s = <<>> THEN 0
    ELSE 10 * ParseInt(SubSeq(s, 1, Len(s) - 1)) + DigitValue(s[Len(s)])

RECURSIVE IntToStr(_)
\* str(n) of a natural number
IntToStr(n) ==
    IF n < 10 THEN <<Digits[n + 1]>>
    ELSE IntToStr(n \div 10) \o <<Digits[(n % 10) + 1]>>

\* any(word in text for word in words)
AnyIn(words, text) == \E i \in DOMAIN words : Contains(text, words[i])

\* the places of the words of a list that occur in a text
PlacesIn(words, text) == {i \in DOMAIN words : Contains(text, words[i])}

Last(S) == CHOOSE i \in S : \A j \in S : j <= i

\* fy.replace('-', '')
Undash(fy) == SelectSeq(fy, LAMBDA c : c # "-")

\* the fiscal_years whose label or compact form is in the query, lines 113-115
FiscalYearPlaces(q) ==
    {i \in DOMAIN fiscal_years :
        Contains(q, fiscal_years[i]) \/ Contains(q, Undash(fiscal_years[i]))}

\* f"{year}-{str(int(year)+1)[2:]}", line 122
FiscalYearOf(year) ==
    year \o <<"-">> \o SubSeq(IntToStr(ParseInt(year) + 1), 3, Len(IntToStr(ParseInt(year) + 1)))

\* the years that are in the query and are 2023 or later, lines 119-121
YearPlaces(q) ==
    {i \in DOMAIN years : Contains(q, years[i]) /\ ParseInt(years[i]) >= 2023}

NoEntity == <<>>

\* entities['fiscal_year'] after lines 111-122; NoEntity when the key is absent
ExtractFiscalYear(q) ==
    IF YearPlaces(q) # {} THEN FiscalYearOf(years[Last(YearPlaces(q))])
    ELSE IF FiscalYearPlaces(q) # {} THEN fiscal_years[Last(FiscalYearPlaces(q))]
    ELSE NoEntity

\* the last word of the list that is in the text, NoEntity without one
LastIn(words, text) ==
    IF PlacesIn(words, text) = {} THEN NoEntity ELSE words[Last(PlacesIn(words, text))]

\* the intent after lines 54-130
ExtractIntent(query_lower) ==
    LET general(i, label) == IF i = "general_inquiry" THEN label ELSE i
        i1 == IF AnyIn(dashboard_words, query_lower) THEN "dashboard_inquiry"
              ELSE "general_inquiry"
        i2 == IF AnyIn(budget_words, query_lower) THEN general(i1, "budget_inquiry") ELSE i1
        i3 == IF AnyIn(portfolio_words, query_lower) THEN "portfolio_inquiry" ELSE i2
        i4 == IF AnyIn(ranking_words, query_lower) THEN "ranking_query" ELSE i3
        i5 == IF AnyIn(breakdown_words, query_lower) THEN "breakdown_query" ELSE i4
        i6 == IF AnyIn(trend_words, query_lower) THEN "comparison_query" ELSE i5
        i7 == IF AnyIn(amount_words, query_lower) THEN general(i6, "amount_query") ELSE i6
        i8 == IF AnyIn(retriever_departments, query_lower)
              THEN general(i7, "department_inquiry") ELSE i7
        i9 == IF AnyIn(portfolios, query_lower) THEN general(i8, "portfolio_inquiry") ELSE i8
    IN  IF AnyIn(programs, query_lower) THEN general(i9, "program_inquiry") ELSE i9

\* the tuple (intent, entities); an absent key is NoEntity
extract_intent_and_entities(q) ==
    [ intent   |-> ExtractIntent(Lower(q)),
      entities |-> [ department  |-> LastIn(retriever_departments, Lower(q)),
                     portfolio   |-> LastIn(portfolios, Lower(q)),
                     fiscal_year |-> ExtractFiscalYear(q),
                     program     |-> LastIn(programs, Lower(q)) ] ]

(***************************************************************************)
(* Extraction runs: one query text of up to MaxYearWords words.            *)
(***************************************************************************)
MaxYearWords == 2

YearWords ==
    << <<"2","0","2","2">>,
       <<"2","0","2","3">>,
       <<"2","0","2","5">>,
       <<"2","0","2","9">>,
       <<"2","0","2","4","-","2","5">>,
       <<"2","0","2","6","-","2","7">>,
       <<"2","0","2","4","2","5">>,
       <<"b","u","d","g","e","t">> >>

EntityQueries ==
    {JoinWords(ws) : ws \in UNION {[1..n -> Range(YearWords)] : n \in 0..MaxYearWords}}

InitEntities ==
    /\ query \in EntityQueries
    /\ intent = NoIntent
    /\ ledger = <<>>
    /\ dbUp = TRUE
    /\ index = <<>>
    /\ records = {}
    /\ resp = NoResp
    /\ chat = NoChat
    /\ audit = NoAudit

\* GovHackAIService.process_query, line 600
ExtractEntities ==
    /\ intent' = [done |-> TRUE, by |-> "retriever", llm |-> NoLLM,
                  result |-> extract_intent_and_entities(query)]
    /\ UNCHANGED <<query, ledger, dbUp, index, records, resp, chat, audit>>

NextEntities == ExtractEntities

SpecEntities == InitEntities /\ [][NextEntities]_vars

(***************************************************************************)
(* Budget import from the text of the CSV: clean_row_data strips the cell  *)
(* of the fiscal year and clean_amount turns it into the Decimal or None   *)
(* that handle stores with bulk_create, which runs no field validator.     *)
(***************************************************************************)
\* str.replace(c, '') for every c of chars
Without(s, chars) == SelectSeq(s, LAMBDA c : c \notin chars)

NoAmount == [null |-> TRUE, amount |-> 0]

NoAmountTexts == {<<>>, <<"-">>, <<"N","/","A">>, <<"n","/","a">>}

CurrencyMarks == {"$", ","}

SignMarks == {"-", "(", ")"}

\* Decimal(text) for the texts of whole numbers: blanks around the digits are
\* dropped, anything else raises InvalidOperation
DecimalOf(text) ==
    LET digits == Strip(text)
    IN  IF digits # <<>> /\ \A i \in DOMAIN digits : digits[i] \in Range(Digits)
        THEN [null |-> FALSE, amount |-> ParseInt(digits)]
        ELSE NoAmount

clean_amount(amount_str) ==
    IF amount_str = <<>> \/ Strip(amount_str) \in NoAmountTexts THEN NoAmount
    ELSE LET cleaned == Strip(Without(amount_str, CurrencyMarks))
         IN  IF cleaned = <<>> THEN NoAmount
             ELSE LET is_negative == cleaned[1] = "-" \/ cleaned[1] = "("
                      amount == DecimalOf(Without(cleaned, SignMarks))
                  IN  IF amount.null THEN NoAmount
                      ELSE IF is_negative THEN [amount EXCEPT !.amount = 0 - amount.amount]
                      ELSE amount

\* cells of the column '2024-25'
AmountTexts ==
    { <<"5">>, <<"$","1",",","2">>, <<" ","7"," ">>, <<"-","5">>, <<"(","5",")">>,
      <<"5","-","3">>, <<"-">>, <<"N","/","A">>, <<"(",")">>, <<"x">>, <<>> }

\* one run of import_budget on a file of one line, for line item i
ImportLine(i, cell) ==
    /\ resp = NoResp
    /\ dbUp
    /\ ledger[i] = NoRow
    /\ ledger' = [ledger EXCEPT ![i] =
                    LET amount == clean_amount(Strip(cell))
                    IN  [present |-> TRUE, null |-> amount.null, amount |-> amount.amount]]
    /\ UNCHANGED <<query, intent, dbUp, index, records, resp, chat, audit>>

NextImport == \E i \in LineItems, cell \in AmountTexts : ImportLine(i, cell)

SpecImport == Init /\ [][NextImport]_vars

(***************************************************************************)
(* Request runs: both endpoints take every query text, the blank one       *)
(* included, and the chat view stores up to MaxRequests exchanges.         *)
(***************************************************************************)
MaxRequests == 2

\* POST /api/chat/query/
ChatQuery(raw, session_id, llm) ==
    /\ resp = NoResp
    /\ chat.messages < 2 * MaxRequests
    /\ \E out \in chat_query(raw, session_id, llm, ledger, index, records, dbUp, chat) :
          /\ resp' = out.resp
          /\ chat' = out.chat
    /\ UNCHANGED <<query, intent, ledger, dbUp, index, records, audit>>

NextChat ==
    \/ \E q \in FlowQueries, session_id \in SessionRefs, llm \in FlowLLM :
          ChatQuery(q, session_id, llm)
    \/ \E q \in FlowQueries, pref \in MethodPreferences, llm \in FlowLLM : SmartQuery(q, pref, llm)
    \/ DbFails
    \/ DbRecovers
    \/ Deliver

SpecChat == Init /\ [][NextChat]_vars

(***************************************************************************)
(* Audit trail: requests of one day in one server process, with the audit  *)
(* ids they were answered with, up to MaxAudited ids.                      *)
(***************************************************************************)
MaxAudited == 2

AuditQueries == {Q_top, Q_general, Q_hybrid}

AuditLLM == {LLMFailure("timeout"), LLMJson(TRUE, "HYBRID")}

AuditPreferences == {"auto", "sql", "rag"}

\* hash(q) of this process: the one drawn before, if q was hashed before
HashOf(q, store) ==
    IF \E p \in store.hashes : p[1] = q
    THEN {p[2] : p \in {x \in store.hashes : x[1] = q}}
    ELSE HashSamples

\* process_query with the audit id of the result's metadata; a failure dict has none
ProcessQueryAudit(q, llm) ==
    /\ resp = NoResp
    /\ Len(audit.log) < MaxAudited
    /\ \E r \in process_query(q, llm, ledger, index, records, dbUp), h \in HashOf(q, audit) :
          /\ resp' = r
          /\ audit' = IF r.result.success
                      THEN [ hashes |-> audit.hashes \cup {<<q, h>>},
                             log |-> Append(audit.log,
                                        [ flow |-> "chat", method |-> r.result.method,
                                          query |-> q,
                                          evidence_id |-> chat_audit_id(r.result.method, h),
                                          info_id |-> NoAuditId ]) ]
                      ELSE audit
    /\ UNCHANGED <<query, intent, ledger, dbUp, index, records, chat>>

\* smart_query with the audit ids of evidence_package and audit_info; the error
\* envelope has neither
SmartQueryAudit(q, pref, llm) ==
    /\ resp = NoResp
    /\ Len(audit.log) < MaxAudited
    /\ \E r \in smart_query(q, pref, llm, ledger, index, records, dbUp),
          u1 \in UuidSamples, u2 \in UuidSamples :
          /\ resp' = r
          /\ audit' = IF r.status = "ok"
                      THEN [ audit EXCEPT !.log =
                               Append(audit.log,
                                  [ flow |-> "direct", method |-> r.method, query |-> q,
                                    evidence_id |-> generate_evidence_package(u1),
                                    info_id |-> generate_audit_info(u2) ]) ]
                      ELSE audit
    /\ UNCHANGED <<query, intent, ledger, dbUp, index, records, chat>>

NextAudit ==
    \/ \E q \in AuditQueries, llm \in AuditLLM : ProcessQueryAudit(q, llm)
    \/ \E q \in AuditQueries, pref \in AuditPreferences, llm \in AuditLLM :
          SmartQueryAudit(q, pref, llm)
    \/ Deliver

SpecAudit == Init /\ [][NextAudit]_vars
(***************************************************************************)
(* Properties                                                              *)
(***************************************************************************)
\* C1: the fallback classifier answers HYBRID when the lower-cased text holds
\* a hybrid cue and an SQL or RAG cue, else SQL when it holds at least as many
\* SQL cues as RAG cues, else RAG; no cue at all is SQL, hybrid cues alone are SQL.
C1_RuleBasedDecision ==
    (intent.done /\ intent.by = "rules") =>
        LET t   == Lower(query)
            sql == Cardinality({k \in DOMAIN sql_keywords : Contains(t, sql_keywords[k])})
            rag == Cardinality({k \in DOMAIN rag_keywords : Contains(t, rag_keywords[k])})
            hyb == Cardinality({k \in DOMAIN hybrid_keywords : Contains(t, hybrid_keywords[k])})
            m   == intent.result.method
        IN  /\ (hyb > 0 /\ (sql > 0 \/ rag > 0)) => m = "HYBRID"
            /\ (~(hyb > 0 /\ (sql > 0 \/ rag > 0)) /\ sql >= rag) => m = "SQL"
            /\ (~(hyb > 0 /\ (sql > 0 \/ rag > 0)) /\ sql < rag) => m = "RAG"
            /\ (sql = 0 /\ rag = 0) => m = "SQL"

\* a text with hybrid cues only has been classified SQL by the fallback
C1_Witness ==
    /\ intent.done /\ intent.by = "rules"
    /\ intent.result.reasoning[1] = 0 /\ intent.result.reasoning[2] = 0
    /\ intent.result.reasoning[3] > 0
    /\ intent.result.method = "SQL"

SchemaViolation(llm) ==
    llm.kind # "json" \/ ~llm.has_method \/ llm.method \notin Methods

\* C2: _analyze_intent always returns a classification whose method is SQL,
\* RAG or HYBRID, and every failure or schema violation of the external model
\* yields the result of the rule-based fallback.
C2_ClassifyAlwaysValid ==
    (intent.done /\ intent.by = "analyze") =>
        /\ intent.result.has_method
        /\ intent.result.method \in Methods
        /\ SchemaViolation(intent.llm) => intent.result = _rule_based_analysis(query)

\* the aggregation sub-call of the HYBRID response failed: the chat flow left
\* it out or it carries the error narrative of a ledger failure, the direct
\* flow let its exception through
HybridSqlFailed ==
    \/ /\ resp.flow = "chat"
       /\ resp.status = "ok"
       /\ (resp.result.sql_result = <<>> \/ resp.result.sql_result[1].is_error)
    \/ /\ resp.flow = "direct"
       /\ resp.status = "error"
       /\ resp.result.raised

\* the retrieval sub-call of the HYBRID response failed or found nothing
HybridRagFailed ==
    \/ /\ resp.flow = "chat"
       /\ resp.status = "ok"
       /\ resp.result.rag_result = <<>>
    \/ /\ resp.flow = "direct"
       /\ (~resp.rag_ran \/ resp.result.rag_result[1].total_results = 0)

\* C3: a HYBRID response whose aggregation and retrieval sub-calls both failed
\* is a top-level failure (success false), and the confidence it carries is 0.
C3_HybridBothFail ==
    (resp.path = "HYBRID" /\ HybridSqlFailed /\ HybridRagFailed) =>
        /\ ~resp.success
        /\ resp.has_confidence => resp.confidence = 0

\* C4: in a HYBRID query of either flow, when one sub-call fails with an
\* exception the other sub-call has still run, and its result is in the
\* response when it succeeded.
C4_HybridIsolation ==
    resp.path = "HYBRID" =>
        /\ (resp.flow = "direct" /\ resp.status = "error" /\ resp.result.raised)
               => resp.rag_ran
        /\ (resp.flow = "chat" /\ resp.status = "ok"
              /\ search_documents(resp.query, "", index, records, dbUp) # <<>>)
               => (resp.sql_ran /\ resp.result.sql_result # <<>>)
        /\ (resp.flow = "chat" /\ resp.status = "ok" /\ ~dbUp)
               => resp.rag_ran

\* C5: the confidence of a chat-flow response equals the confidence the direct
\* flow computes for the same query, classification, ledger and index.
C5_SameConfidenceInBothFlows ==
    (resp.flow = "chat" /\ resp.status = "ok" /\ resp.intent.method \in Methods) =>
        \A r \in smart_query(resp.query, "auto", resp.llm, ledger, index, records, dbUp) :
            r.status = "ok" => (r.has_confidence /\ r.confidence = resp.confidence)

\* the breakdown or hit list of a response is not empty
HasRows(r) ==
    IF r.flow = "chat"
    THEN \/ r.result.table_data # <<>>
         \/ \E i \in DOMAIN r.result.sql_result : r.result.sql_result[i].table_data # <<>>
         \/ \E i \in DOMAIN r.result.rag_result : r.result.rag_result[i].table_data # <<>>
    ELSE \/ r.result.breakdown # <<>>
         \/ r.result.results # <<>>
         \/ \E i \in DOMAIN r.result.sql_result : r.result.sql_result[i].breakdown # <<>>
         \/ \E i \in DOMAIN r.result.rag_result : r.result.rag_result[i].results # <<>>

\* C6: the confidence is min(1, 0.5 + method bonus + 0.1 for two or more data
\* sources + 0.1 for a non-empty breakdown or hit list), the bonus being 0.3
\* for SQL, 0.2 for RAG and 0.4 for HYBRID (tenths here).
C6_ConfidenceFormula ==
    (resp.status = "ok" /\ resp.method \in Methods) =>
        LET bonus   == IF resp.method = "SQL" THEN 3
                       ELSE IF resp.method = "RAG" THEN 2 ELSE 4
            sources == IF Cardinality(resp.result.data_sources) >= 2 THEN 1 ELSE 0
            rows    == IF HasRows(resp) THEN 1 ELSE 0
        IN  /\ resp.has_confidence
            /\ resp.confidence = Min(10, 5 + bonus + sources + rows)
            /\ resp.confidence \in 0..10

\* C7: when the engine of an SQL or RAG query fails (a ledger failure, a
\* retrieval that fails or finds nothing), the confidence of the response is
\* strictly below the baseline of the method, 0.8 for SQL and 0.7 for RAG.
C7_FailureForcesLowConfidence ==
    resp.status = "ok" =>
        /\ (resp.path = "SQL" /\ resp.flow = "chat"
              /\ (~resp.result.success \/ resp.result.is_error))
               => (resp.has_confidence /\ resp.confidence < 8)
        /\ (resp.path = "RAG" /\ resp.flow = "chat" /\ ~resp.result.success)
               => (resp.has_confidence /\ resp.confidence < 7)
        /\ (resp.path = "RAG" /\ resp.flow = "direct" /\ resp.result.total_results = 0)
               => (resp.has_confidence /\ resp.confidence < 7)

\* the total a response of the SQL path reports
SqlTotal(r) == IF r.flow = "chat" THEN r.result.total_amount ELSE r.result.total

\* C8: the aggregation engine of either flow never raises; on a ledger access
\* failure it returns total 0 with an error narrative, and on an empty ledger
\* it returns total 0.
C8_AggregationNeverRaises ==
    resp.path = "SQL" =>
        /\ resp.status = "ok"
        /\ ~dbUp => (SqlTotal(resp) = 0
                       /\ (resp.flow = "chat" => resp.result.is_error))
        /\ NonNull(ledger) = {} => SqlTotal(resp) = 0

\* the rows of a response of the SQL path that carry a percentage
PercentRows(r) ==
    LET rows == IF r.flow = "chat" THEN r.result.table_data ELSE r.result.breakdown
    IN  {rows[i] : i \in {j \in DOMAIN rows : rows[j].has_pct}}

Abs(n) == IF n < 0 THEN -n ELSE n

\* C9: where an aggregation computes a percentage of total, no division by
\* zero occurs; each percentage is 0 when the total is 0, and otherwise it is
\* amount / total * 100 (to the decimals the code rounds to).
C9_PercentageOfTotal ==
    (resp.path = "SQL" /\ resp.status # "bad_request") =>
        /\ ~(resp.status = "error" /\ resp.result.error = "ZeroDivisionError")
        /\ resp.status = "ok" =>
             LET d     == IF resp.flow = "chat" THEN 1 ELSE 2
                 total == SqlTotal(resp)
             IN  \A row \in PercentRows(resp) :
                    IF total = 0 THEN row.percentage = 0
                    ELSE 2 * Abs(row.percentage * total - row.amount * 100 * Pow10(d))
                            <= total

\* code points of the characters of the names, in increasing order
CodeOrder ==
    <<" ">> \o UpperCase \o LowerCase

CodeOf(c) == CHOOSE i \in DOMAIN CodeOrder : CodeOrder[i] = c

\* a < b on strings
StrLess(a, b) ==
    \E k \in 1..(Len(b)) :
        /\ \A j \in 1..(k - 1) : j <= Len(a) /\ a[j] = b[j]
        /\ (k > Len(a) \/ (k <= Len(a) /\ CodeOf(a[k]) < CodeOf(b[k])))

\* a < b on tuples of strings of the same length
NamesLess(a, b) ==
    \E k \in DOMAIN a :
        /\ \A j \in 1..(k - 1) : a[j] = b[j]
        /\ StrLess(a[k], b[k])

\* the rows of a top-N response
TopRows(r) == IF r.flow = "chat" THEN r.result.table_data ELSE r.result.breakdown

IsTopN(r) ==
    /\ r.path = "SQL"
    /\ r.status = "ok"
    /\ IF r.flow = "chat" THEN r.result.executed_query = "top" ELSE r.result.kind = "top"

\* C10: a top-N breakdown has at most 10 rows in non-increasing order of
\* amount, rows of equal amount are in ascending order of group name, and no
\* group left out has a larger amount than a group kept.
C10_TopNOrder ==
    IsTopN(resp) =>
        LET rows   == TopRows(resp)
            groups == GroupBy(NonNull(ledger), ByPortfolioDepartmentProgram, ledger)
            kept   == {rows[i].group : i \in DOMAIN rows}
        IN  /\ Len(rows) <= 10
            /\ \A i, j \in DOMAIN rows :
                  i < j => /\ rows[i].amount >= rows[j].amount
                           /\ rows[i].amount = rows[j].amount
                                 => NamesLess(rows[i].group, rows[j].group)
            /\ (resp.flow = "direct" \/ ~resp.result.is_error) =>
                  \A g \in groups :
                      OrNames(g.key) \notin kept
                          => \A i \in DOMAIN rows : g.total_amount <= rows[i].amount

\* the query kind recorded in an aggregation response
IsAggregation(r) ==
    /\ r.path = "SQL"
    /\ r.status = "ok"
    /\ r.flow = "chat" => r.result.success

KindOf(r) == IF r.flow = "chat" THEN r.result.executed_query ELSE r.result.kind

\* C11: the query kind of an aggregation response is the kind that the engine
\* of the other flow chooses for the same query text: the chat flow and the
\* direct flow select the same kind for every text.
C11_SameQueryKind ==
    IsAggregation(resp) =>
        KindOf(resp) = IF resp.flow = "chat" THEN DirectQueryKind(resp.query)
                       ELSE ChatQueryKind(resp.query)

HashesOf(idx) == {idx[i].content_hash : i \in DOMAIN idx}

NoSharedHash(idx) ==
    \A i, j \in DOMAIN idx : i # j => idx[i].content_hash # idx[j].content_hash

\* the content hashes of the stored records that the index does not hold
FreshHashes(recs, idx) ==
    {DocVector(d).content_hash : d \in {e \in DOMAIN DocCatalogue : RecordOf(e) \in recs}}
        \ HashesOf(idx)

\* C12: no step leaves two index entries with the same content hash, and a
\* vectorize_documents run without force_rebuild keeps every entry, adds one
\* entry for each content hash that was not stored and none for a hash that
\* was: when every record's text is indexed already, the index is unchanged.
C12_IndexingIdempotent ==
    [][ /\ NoSharedHash(index')
        /\ (resp'.flow = "vectorize" /\ resp'.success /\ ~resp'.result.force_rebuild)
              => /\ SubSeq(index', 1, Len(index)) = index
                 /\ Len(index') = Len(index) + Cardinality(FreshHashes(records, index))
                 /\ HashesOf(index') = HashesOf(index) \cup FreshHashes(records, index)
      ]_vars

\* a run without force_rebuild has gone over two stored records of the same
\* canonical text, and the index holds that text once
C12_Witness ==
    /\ resp.flow = "vectorize"
    /\ resp.success
    /\ ~resp.result.force_rebuild
    /\ \E d, e \in DOMAIN DocCatalogue :
          /\ d # e
          /\ RecordOf(d) \in records
          /\ RecordOf(e) \in records
          /\ DocVector(d).content_hash = DocVector(e).content_hash
          /\ Cardinality({i \in DOMAIN index :
                            index[i].content_hash = DocVector(d).content_hash}) = 1

\* the hits of a search_documents call
IsSearch(r) == r.flow = "search"

HitsOf(r) == r.result.hits

\* the query tokens of length > 2
LongTokens(q) == {w \in ToSet(Split(Lower(q))) : Len(w) > 2}

\* C13: every hit of a search_documents call with a table filter comes from
\* the table the filter names.
C13_TableFilterRespected ==
    (IsSearch(resp) /\ resp.result.table_filter # "") =>
        \A i \in DOMAIN HitsOf(resp) :
            HitsOf(resp)[i].source_table = resp.result.table_filter

\* C14: the text of every hit contains, case-insensitively, a query token of
\* length > 2, and a call without table filter whose query has no such token
\* returns no hit.
C14_HitsContainQueryToken ==
    IsSearch(resp) =>
        /\ \A i \in DOMAIN HitsOf(resp) :
              \E w \in LongTokens(resp.query) :
                  Contains(Lower(HitsOf(resp)[i].content_text), w)
        /\ (LongTokens(resp.query) = {} /\ resp.result.table_filter = "")
              => HitsOf(resp) = <<>>

\* the index entries that the query of a search selects, oldest first
CandidatesOf(r, idx) ==
    SelectSeq(idx, LAMBDA v : q_objects(v, LongTokens(r.query), r.result.table_filter))

\* the top_k most recently indexed of them
PoolOf(r, idx) ==
    LET candidates == CandidatesOf(r, idx)
    IN  SubSeq(candidates, IF Len(candidates) > top_k THEN Len(candidates) - top_k + 1 ELSE 1,
               Len(candidates))

IsHitOf(h, v) ==
    /\ h.source_table = v.source_table
    /\ h.record_id = v.record_id
    /\ h.content_text = v.content_text

HasRecord(v, recs) == <<v.source_table, v.record_id>> \in recs

ScoreOf(q, v) == _calculate_relevance(q, v.content_text)

\* C15: a search returns at most top_k hits, every hit is one of the top_k
\* most recently indexed candidates, and the hits are in non-increasing order
\* of relevance score.
C15_PoolBeforeRanking ==
    (IsSearch(resp) /\ dbUp) =>
        LET hits == HitsOf(resp)
            pool == PoolOf(resp, index)
        IN  /\ Len(hits) <= top_k
            /\ \A i \in DOMAIN hits : \E k \in DOMAIN pool : IsHitOf(hits[i], pool[k])
            /\ \A i, j \in DOMAIN hits :
                  i < j => ScoreGE(hits[i].relevance_score, hits[j].relevance_score)

\* a candidate older than the pool, whose record exists, scores higher than
\* a hit that was returned
C15_Witness ==
    /\ IsSearch(resp)
    /\ dbUp
    /\ LET candidates == CandidatesOf(resp, index)
           hits       == HitsOf(resp)
       IN  /\ Len(candidates) > top_k
           /\ \E k \in 1..(Len(candidates) - top_k), i \in DOMAIN hits :
                 /\ HasRecord(candidates[k], records)
                 /\ ~ScoreGE(hits[i].relevance_score, ScoreOf(resp.query, candidates[k]))

\* the word sets of a query and of a hit
WordsOf(text) == ToSet(Split(Lower(text)))

\* C16: the relevance score of every hit is in [0,1]; it is 0 when the query
\* words and the document words have no common word or one of the sets is
\* empty, and otherwise it is 0.6 * |Q n D| / |Q u D| + 0.4 * |Q n D| / |D|.
C16_RelevanceFormula ==
    IsSearch(resp) =>
        \A i \in DOMAIN HitsOf(resp) :
            LET Q      == WordsOf(resp.query)
                D      == WordsOf(HitsOf(resp)[i].content_text)
                common == Cardinality(Q \cap D)
                all    == Cardinality(Q \cup D)
                s      == HitsOf(resp)[i].relevance_score
            IN  /\ s.den > 0
                /\ 0 <= s.num
                /\ s.num <= s.den
                /\ IF common = 0
                   THEN s.num = 0
                   ELSE s.num * (10 * all * Cardinality(D))
                          = s.den * (6 * common * Cardinality(D) + 4 * common * all)

\* one search returns a hit of score 0, a hit of a score strictly between 0
\* and 1, and a hit of score 1
C16_Witness ==
    /\ IsSearch(resp)
    /\ \E i, j, k \in DOMAIN HitsOf(resp) :
          /\ HitsOf(resp)[i].relevance_score.num = 0
          /\ HitsOf(resp)[j].relevance_score.num > 0
          /\ HitsOf(resp)[j].relevance_score.num < HitsOf(resp)[j].relevance_score.den
          /\ HitsOf(resp)[k].relevance_score.num = HitsOf(resp)[k].relevance_score.den
          /\ WordsOf(HitsOf(resp)[k].content_text) = WordsOf(resp.query)

\* C17: a search whose pool holds an entry of a deleted record leaves that
\* entry out, returns every other entry of the pool, and is no error.
C17_DeletedRecordDropped ==
    (IsSearch(resp) /\ dbUp) =>
        LET hits == HitsOf(resp)
            pool == PoolOf(resp, index)
        IN  /\ resp.status = "ok"
            /\ \A i \in DOMAIN hits : HasRecord(hits[i], records)
            /\ \A k \in DOMAIN pool :
                  HasRecord(pool[k], records)
                      => \E i \in DOMAIN hits : IsHitOf(hits[i], pool[k])

\* the pool of a search holds an entry of a deleted record and an entry whose
\* record exists
C17_Witness ==
    /\ IsSearch(resp)
    /\ dbUp
    /\ HitsOf(resp) # <<>>
    /\ \E k \in DOMAIN PoolOf(resp, index) : ~HasRecord(PoolOf(resp, index)[k], records)

IsDigit(c) == \E i \in DOMAIN Digits : Digits[i] = c

\* a bare 4-digit year
IsBareYear(w) == Len(w) = 4 /\ \A i \in DOMAIN w : IsDigit(w[i])

\* a fiscal-year token "YYYY-YY"
IsFiscalToken(w) ==
    /\ Len(w) = 7
    /\ w[5] = "-"
    /\ \A i \in {1, 2, 3, 4, 6, 7} : IsDigit(w[i])

HasDigit(w) == \E i \in DOMAIN w : IsDigit(w[i])

\* "Y-yy", yy the two digits of (Y + 1) mod 100
FiscalLabel(y) ==
    IntToStr(y) \o <<"-", Digits[(((y + 1) % 100) \div 10) + 1], Digits[((y + 1) % 10) + 1]>>

Extracted == intent.done /\ intent.by = "retriever"

\* C18: in a text whose only tokens with digits are bare 4-digit years, the
\* fiscal_year entity is the label "Y-yy" of a bare year Y >= 2023 of the
\* text, and there is no fiscal_year entity when every bare year is below 2023.
C18_BareYearToFiscalYear ==
    Extracted =>
        LET tokens == ToSet(Split(query))
            labels == {FiscalLabel(ParseInt(w)) :
                          w \in {t \in tokens : IsBareYear(t) /\ ParseInt(t) >= 2023}}
            fy     == intent.result.entities.fiscal_year
        IN  (\A t \in tokens : HasDigit(t) => IsBareYear(t)) =>
                IF labels = {} THEN fy = NoEntity ELSE fy \in labels

\* C19: in a text with a fiscal-year token "YYYY-YY" the fiscal_year entity
\* is a fiscal-year token of the text, whatever bare year the text also holds.
C19_ExplicitFiscalYearVerbatim ==
    Extracted =>
        LET fiscal == {t \in ToSet(Split(query)) : IsFiscalToken(t)}
        IN  fiscal # {} => intent.result.entities.fiscal_year \in fiscal

\* C20: a request of either flow whose query is blank is answered with the
\* invalid-input error, without a classification, without a run of the
\* aggregation or of the retrieval engine, and leaves the stored sessions and
\* messages as they were.
C20_BlankRejectedFirst ==
    [][ (resp'.flow \in {"chat", "direct"} /\ resp'.query = <<>>)
          => /\ resp'.status = "bad_request"
             /\ resp'.intent = NoIntent.result
             /\ resp'.path = "none"
             /\ ~resp'.sql_ran
             /\ ~resp'.rag_ran
             /\ chat' = chat
      ]_vars

\* the chat view has rejected a blank query after it stored an exchange
C20_Witness ==
    /\ resp.flow = "chat"
    /\ resp.query = <<>>
    /\ resp.status = "bad_request"
    /\ dbUp
    /\ chat.messages > 0

\* the classification the classifier returns for the query of a response
ClassifiedFor(r) == _analyze_intent(r.query, r.llm)

IsDirectAnswer(r) == r.flow = "direct" /\ r.status = "ok"

\* C21: in an answer of smart_query a preference of sql or rag is the method
\* reported and the engine that ran, whatever the classifier chose; with
\* auto the method is the classifier's; and the entities of the
\* classification in the answer are always the classifier's.
C21_PreferenceOverridesMethod ==
    IsDirectAnswer(resp) =>
        /\ resp.pref = "sql" => (resp.method = "SQL" /\ resp.path = "SQL")
        /\ resp.pref = "rag" => (resp.method = "RAG" /\ resp.path = "RAG")
        /\ resp.pref = "auto" => resp.method = ClassifiedFor(resp).method
        /\ resp.intent.method = resp.method
        /\ resp.intent.entities = ClassifiedFor(resp).entities

\* the classifier chose SQL with entities of its own and the preference rag
\* made the retrieval engine run
C21_Witness ==
    /\ IsDirectAnswer(resp)
    /\ resp.pref = "rag"
    /\ resp.method = "RAG"
    /\ resp.rag_ran
    /\ ~resp.sql_ran
    /\ ClassifiedFor(resp).method = "SQL"
    /\ resp.intent.entities # <<>>

\* C22: every response of process_query and of smart_query to a non-blank
\* query carries a confidence score, and the error envelope of an aborted
\* request carries confidence 0.
C22_AlwaysAConfidence ==
    (resp.flow \in {"chat", "direct"} /\ resp.status \in {"ok", "error"}) =>
        /\ resp.has_confidence
        /\ resp.status = "error" => resp.confidence = 0

ItemsOfType(items, type) == SelectSeq(items, LAMBDA item : item.type = type)

\* the aggregation results a delivered chat answer carries, one if it succeeded
AggregationsOf(r) ==
    IF r.path = "SQL" THEN (IF r.result.success /\ ~r.result.is_error THEN <<r.result>> ELSE <<>>)
    ELSE IF r.path = "HYBRID"
         THEN SelectSeq(r.result.sql_result, LAMBDA sql_result : ~sql_result.is_error)
    ELSE <<>>

IsChatAnswer(r) == r.flow = "chat" /\ r.status = "ok"

\* C23: the evidence package of a chat answer holds exactly one aggregate item,
\* with the descriptor and the row count, when the SQL or HYBRID path ran an
\* aggregation successfully, and min(5, hits) retrieval items when the RAG or
\* HYBRID path found hits, each preview cut to 100 characters plus an ellipsis
\* only when the content is longer
C23_EvidenceItemsPresent ==
    IsChatAnswer(resp) =>
        LET sql_items == ItemsOfType(resp.evidence_items, "sql_query")
            rag_items == ItemsOfType(resp.evidence_items, "document_retrieval")
            ran == AggregationsOf(resp)
            hits == IF resp.path \in {"RAG", "HYBRID"}
                    THEN search_documents(resp.query, "", index, records, dbUp)
                    ELSE <<>>
        IN  /\ ran # <<>> =>
                  /\ Len(sql_items) = 1
                  /\ sql_items[1].content = ran[1].executed_query
                  /\ sql_items[1].rows_affected = ran[1].rows
            /\ hits # <<>> =>
                  /\ Len(rag_items) = Min(5, Len(hits))
                  /\ \A i \in DOMAIN rag_items :
                        rag_items[i].content_preview =
                            IF Len(hits[i].content_text) > 100
                            THEN SubSeq(hits[i].content_text, 1, 100) \o <<".", ".", ".">>
                            ELSE hits[i].content_text

\* C24: two audit ids issued on one day to requests of the same flow and method
\* are different, whether the query texts differ or are the same
C24_AuditIdsUnique ==
    \A i, j \in DOMAIN audit.log :
        (i # j /\ audit.log[i].flow = audit.log[j].flow
               /\ audit.log[i].method = audit.log[j].method)
            => audit.log[i].evidence_id # audit.log[j].evidence_id

\* C30: in every answered smart_query request the audit id of evidence_package
\* is the audit id of audit_info
C30_OneAuditIdPerResponse ==
    \A i \in DOMAIN audit.log :
        audit.log[i].flow = "direct" => audit.log[i].evidence_id = audit.log[i].info_id

aggregation_cues == <<s_total, s_top, s_highest, s_compare, s_average, s_budget>>

\* a text with one of the cue words of aggregation and no cue word of retrieval
IsAggregationQuestion(q) ==
    /\ CountIn(aggregation_cues, Lower(q)) > 0
    /\ CountIn(rag_keywords, Lower(q)) = 0

\* C25: the rule-based fallback gives method SQL to every aggregation question,
\* also to one phrased with "What is" or "Show me"
C25_AggregationQuestionIsSQL ==
    (intent.done /\ intent.by = "rules" /\ IsAggregationQuestion(query))
        => intent.result.method = "SQL"

\* the responses the request of r can get when it is submitted again now
SubmittedAgain(r) ==
    IF r.flow = "chat"
    THEN process_query(r.query, r.llm, ledger, index, records, dbUp)
    ELSE smart_query(r.query, r.pref, r.llm, ledger, index, records, dbUp)

\* C26: submitted again against the same ledger and index, with the classifier
\* answering the same, a query gets the same method, the same rows and hits in
\* the same order, and the same confidence
C26_SameAnswerTwice ==
    resp.flow \in {"chat", "direct"} =>
        \A again \in SubmittedAgain(resp) :
            /\ again.method = resp.method
            /\ again.result = resp.result
            /\ again.has_confidence = resp.has_confidence
            /\ again.confidence = resp.confidence

\* C27: after any run of the budget import every stored fiscal-year amount is
\* NULL or not negative
C27_AmountsNotNegative ==
    \A i \in LineItems : (ledger[i].present /\ ~ledger[i].null) => ledger[i].amount >= 0

\* the index entries that refer to a record
EntriesOf(rec, idx) ==
    {i \in DOMAIN idx : <<idx[i].source_table, idx[i].record_id>> = rec}

\* C28: when a run of vectorize_documents without force_rebuild has completed,
\* every stored record has exactly one index entry referring to it
C28_OneEntryPerRecord ==
    (resp.flow = "vectorize" /\ resp.status = "ok" /\ ~resp.result.force_rebuild) =>
        \A rec \in records : Cardinality(EntriesOf(rec, index)) = 1

\* C29: the method of an answered smart_query request is SQL, RAG or HYBRID and
\* is the path that ran
C29_MethodNamesPath ==
    IsDirectAnswer(resp) =>
        /\ resp.method \in {"SQL", "RAG", "HYBRID"}
        /\ resp.method = resp.path

============================================================================
